---- MODULE Spec2Model ----
(***************************************************************************)
(* Polygon <-> TON bridge: the transfer ledger (PolygonBridge, in its two  *)
(* variants), and the off-chain relayer loop that pays on TON and writes   *)
(* the confirmation back.                                                  *)
(*                                                                         *)
(*   variant "bool" : contracts/polygon/bridge/PolygonBridge.sol           *)
(*                    (Transfer.completed, automatic completion)           *)
(*   variant "enum" : unnamed/part_005 (BridgeTransfer.status, operator    *)
(*                    completeTransfer, unlockTokens, collectedFees)       *)
(*                                                                         *)
(* A transaction is one atomic step.  A reverted transaction changes no    *)
(* contract storage; the variable result records how the last transaction *)
(* ended ("ok" or the error it reverted with).  Solidity 0.8 arithmetic is *)
(* checked: an overflow or underflow reverts with Panic.  All amounts of   *)
(* the model are far below 2^256, so only the underflow of amount - fee    *)
(* can happen, and it is modelled.                                         *)
(***************************************************************************)
EXTENDS Integers, Sequences, FiniteSets, Bags, TLC

VARIABLES
    variant,              \* which PolygonBridge is deployed: "bool" or "enum"
    config,               \* BridgeConfig public config
    transferNonce,        \* uint256 public transferNonce
    supportedTokens,      \* mapping(address => bool) supportedTokens
    transfers,            \* mapping(bytes32 => Transfer): the written slots
    hasConfirmed,         \* "bool": the (transferId, relayer) flags that are true
    relayerConfirmations, \* "enum": the (transferId, relayer) flags that are true
    collectedFees,        \* "enum": uint256 public collectedFees
    paused,               \* PausableUpgradeable's flag
    relayerRole,          \* the accounts holding RELAYER_ROLE
    nativeCustody,        \* address(this).balance
    tokenCustody,         \* ERC-20 balance of the bridge, per token
    blockNumber,          \* height of the block being built
    logs,                 \* the BridgeInitiated entries of the chain's log
    unlocked,             \* "enum": the TokenUnlocked payouts made, in order
    feesPaid,             \* "enum": native value paid out by withdrawFees
    result,               \* outcome of the last transaction
    tonPayments,          \* TON side: bag of the payments sendNativeTon has sent
    wton,                 \* the WrappedTON proxy: roles, bridge, balances, last outcome
    lastBlock,            \* relayer process -> its scan cursor (let lastBlock)
    cycle                 \* poll() call <<process, slot>> -> where it stands

ledgerVars == <<variant, config, transferNonce, supportedTokens, transfers,
                hasConfirmed, relayerConfirmations, collectedFees, paused,
                relayerRole, nativeCustody, tokenCustody, logs, unlocked,
                feesPaid, result>>
relayerVars == <<tonPayments, lastBlock, cycle>>
vars == <<ledgerVars, blockNumber, wton, relayerVars>>

----------------------------------------------------------------------------
(* Bounds of the model *)

MaxTransfers == 2      \* successful bridgeToTON calls explored
MaxBlock == 3          \* highest block height explored
MaxUnlocks == 2        \* successful unlockTokens calls explored
MaxCycles == 2         \* poll() calls of one relayer process in progress at once
MaxSupply == 3         \* highest wTON total supply explored

----------------------------------------------------------------------------
(* Addresses and inputs *)

ZERO == "0x0"                      \* address(0): the native-asset sentinel
TOK == "tok"                       \* an ERC-20 token
Tokens == {ZERO, TOK}
Admin == "owner"                   \* holds DEFAULT_ADMIN_ROLE, OPERATOR_ROLE, PAUSER_ROLE
User == "user"
Relayers == {"r1", "r2", "r3"}     \* accounts that may be granted RELAYER_ROLE
Accounts == {Admin, User} \cup Relayers

EmptyRecipient == << >>
Recipients == {EmptyRecipient, <<"E">>, <<"E", "Q">>}

BaseConfig ==
    [minBridgeAmount |-> 100, maxBridgeAmount |-> 10000, feeBasisPoints |-> 30,
     relayerThreshold |-> 1, enabled |-> TRUE]

Amounts == {50, 100, 10000, 20000}

----------------------------------------------------------------------------
(* Identifiers *)

\* abi.encodePacked: the fixed-width fields are one element each, the string
\* contributes its characters, all concatenated without length prefixes.
encodePacked(fields) ==
    LET RECURSIVE cat(_)
        cat(fs) == IF fs = << >> THEN << >> ELSE Head(fs) \o cat(Tail(fs))
    IN cat(fields)

\* keccak256 as a collision-free hash: the identifier is the packed preimage.
keccak256(bytes) == bytes

word(n) == <<ToString(n)>>         \* a uint256 field
addr(a) == <<a>>                   \* an address field

\* The id derived without the nonce.
transferIdBoolNoNonce(sender, token, amount, tonRecipient, nonce) ==
    keccak256(encodePacked(<<addr(sender), addr(token), word(amount), tonRecipient>>))

\* PolygonBridge.sol:117-119
transferIdBool(sender, token, amount, tonRecipient, nonce) ==
    keccak256(encodePacked(<<addr(sender), addr(token), word(amount),
                             tonRecipient, word(nonce)>>))

NoTransfer ==
    [sender |-> ZERO, token |-> ZERO, amount |-> 0, tonRecipient |-> << >>,
     timestamp |-> 0, confirmations |-> 0, completed |-> FALSE]

\* A mapping read: an unwritten slot reads as the all-default struct.
getTransfer(id) == IF id \in DOMAIN transfers THEN transfers[id] ELSE NoTransfer

blockTimestamp == blockNumber      \* block.timestamp: positive, grows with the height

BogusId == <<"bogus">>             \* an id no bridgeToTON produced

\* The WrappedTON proxy before initialize: every slot at its default.
NoToken ==
    [initialized |-> FALSE, admins |-> {}, minters |-> {}, pausers |-> {},
     bridge |-> ZERO, balances |-> << >>, result |-> "ok"]

----------------------------------------------------------------------------
(* Transactions *)

\* A revert that does not roll back the transferNonce++ made before it.
RevertKeepsNonce(err) ==
    /\ result' = err
    /\ transferNonce' = IF transferNonce < MaxTransfers THEN transferNonce + 1
                        ELSE transferNonce
    /\ UNCHANGED <<variant, config, supportedTokens, transfers,
                   hasConfirmed, relayerConfirmations, collectedFees, paused,
                   relayerRole, nativeCustody, tokenCustody, logs, unlocked,
                   feesPaid>>

Revert(err) ==
    /\ result' = err
    /\ UNCHANGED <<variant, config, transferNonce, supportedTokens, transfers,
                   hasConfirmed, relayerConfirmations, collectedFees, paused,
                   relayerRole, nativeCustody, tokenCustody, logs, unlocked,
                   feesPaid>>

\* The fee rounded up instead of down.
feeOfRoundedUp(amount, cfg) == (amount * cfg.feeBasisPoints + 9999) \div 10000

feeOf(amount, cfg) == (amount * cfg.feeBasisPoints) \div 10000

\* The amount bounds made exclusive.
bridgeToTONErrorExclusiveBounds(tonRecipient, token, amount, value, pullOk) ==
    IF paused THEN "EnforcedPause"
    ELSE IF ~config.enabled THEN "BridgeDisabled"
    ELSE IF ~supportedTokens[token] THEN "UnsupportedToken"
    ELSE IF amount <= config.minBridgeAmount THEN "InsufficientAmount"
    ELSE IF amount >= config.maxBridgeAmount THEN "ExceedsMaxAmount"
    ELSE IF feeOf(amount, config) > amount THEN "Panic"
    ELSE IF token = ZERO /\ value # amount THEN "Incorrect ETH amount"
    ELSE IF token # ZERO /\ ~pullOk THEN "SafeERC20FailedOperation"
    ELSE "ok"

\* The supportedTokens check left out.
bridgeToTONErrorNoTokenCheck(tonRecipient, token, amount, value, pullOk) ==
    IF paused THEN "EnforcedPause"
    ELSE IF ~config.enabled THEN "BridgeDisabled"
    ELSE IF amount < config.minBridgeAmount THEN "InsufficientAmount"
    ELSE IF amount > config.maxBridgeAmount THEN "ExceedsMaxAmount"
    ELSE IF feeOf(amount, config) > amount THEN "Panic"
    ELSE IF token = ZERO /\ value # amount THEN "Incorrect ETH amount"
    ELSE IF token # ZERO /\ ~pullOk THEN "SafeERC20FailedOperation"
    ELSE "ok"

\* The config.enabled check left out.
bridgeToTONErrorNoEnabledCheck(tonRecipient, token, amount, value, pullOk) ==
    IF paused THEN "EnforcedPause"
    ELSE IF ~supportedTokens[token] THEN "UnsupportedToken"
    ELSE IF amount < config.minBridgeAmount THEN "InsufficientAmount"
    ELSE IF amount > config.maxBridgeAmount THEN "ExceedsMaxAmount"
    ELSE IF feeOf(amount, config) > amount THEN "Panic"
    ELSE IF token = ZERO /\ value # amount THEN "Incorrect ETH amount"
    ELSE IF token # ZERO /\ ~pullOk THEN "SafeERC20FailedOperation"
    ELSE "ok"

\* The checks of bridgeToTON in the order the code makes them; pullOk is
\* whether the ERC-20 would let safeTransferFrom move amount from the caller.
bridgeToTONError(tonRecipient, token, amount, value, pullOk) ==
    IF paused THEN "EnforcedPause"
    ELSE IF ~config.enabled THEN "BridgeDisabled"
    ELSE IF ~supportedTokens[token] THEN "UnsupportedToken"
    ELSE IF amount < config.minBridgeAmount THEN "InsufficientAmount"
    ELSE IF amount > config.maxBridgeAmount THEN "ExceedsMaxAmount"
    ELSE IF feeOf(amount, config) > amount THEN "Panic"
    ELSE IF token = ZERO /\ value # amount THEN "Incorrect ETH amount"
    ELSE IF token # ZERO /\ ~pullOk THEN "SafeERC20FailedOperation"
    ELSE "ok"

bridgeToTON(sender, tonRecipient, token, amount, value, pullOk) ==
    LET err == bridgeToTONError(tonRecipient, token, amount, value, pullOk)
        fee == feeOf(amount, config)
        netAmount == amount - fee
        transferId == transferIdBool(sender, token, amount, tonRecipient, transferNonce)
    IN
    /\ variant = "bool"
    /\ IF err # "ok" THEN Revert(err)
       ELSE
        /\ transferNonce < MaxTransfers
        /\ nativeCustody' = nativeCustody + value
        /\ tokenCustody' = IF token = ZERO THEN tokenCustody
                           ELSE [tokenCustody EXCEPT ![token] = @ + amount]
        /\ transferNonce' = transferNonce + 1
        /\ transfers' = [id \in DOMAIN transfers \cup {transferId} |->
                           IF id = transferId
                           THEN [sender |-> sender, token |-> token, amount |-> netAmount,
                                 tonRecipient |-> tonRecipient, timestamp |-> blockTimestamp,
                                 confirmations |-> 0, completed |-> FALSE]
                           ELSE transfers[id]]
        /\ logs' = Append(logs, [transferId |-> transferId, sender |-> sender,
                                 token |-> token, amount |-> netAmount,
                                 tonRecipient |-> tonRecipient, fee |-> fee,
                                 blockNumber |-> blockNumber])
        /\ result' = "ok"
        /\ UNCHANGED <<variant, config, supportedTokens, hasConfirmed,
                       relayerConfirmations, collectedFees, paused, relayerRole,
                       unlocked, feesPaid>>
    /\ UNCHANGED <<blockNumber, wton, relayerVars>>

\* The role check left out.
confirmTransferErrorNoRole(caller, transferId) ==
    IF getTransfer(transferId).timestamp = 0 THEN "TransferNotFound"
    ELSE IF getTransfer(transferId).completed THEN "AlreadyCompleted"
    ELSE IF <<transferId, caller>> \in hasConfirmed THEN "AlreadyConfirmed"
    ELSE "ok"

\* The role check made after the existence check.
confirmTransferErrorRoleLate(caller, transferId) ==
    IF getTransfer(transferId).timestamp = 0 THEN "TransferNotFound"
    ELSE IF caller \notin relayerRole THEN "AccessControlUnauthorizedAccount"
    ELSE IF getTransfer(transferId).completed THEN "AlreadyCompleted"
    ELSE IF <<transferId, caller>> \in hasConfirmed THEN "AlreadyConfirmed"
    ELSE "ok"

\* The duplicate check left out.
confirmTransferErrorNoDuplicateCheck(caller, transferId) ==
    IF caller \notin relayerRole THEN "AccessControlUnauthorizedAccount"
    ELSE IF getTransfer(transferId).timestamp = 0 THEN "TransferNotFound"
    ELSE IF getTransfer(transferId).completed THEN "AlreadyCompleted"
    ELSE "ok"

\* The duplicate check made before the completion check.
confirmTransferErrorSwapped(caller, transferId) ==
    IF caller \notin relayerRole THEN "AccessControlUnauthorizedAccount"
    ELSE IF getTransfer(transferId).timestamp = 0 THEN "TransferNotFound"
    ELSE IF <<transferId, caller>> \in hasConfirmed THEN "AlreadyConfirmed"
    ELSE IF getTransfer(transferId).completed THEN "AlreadyCompleted"
    ELSE "ok"

\* Existence decided on the attestation count, not on the timestamp.
confirmTransferErrorExistsByCount(caller, transferId) ==
    IF caller \notin relayerRole THEN "AccessControlUnauthorizedAccount"
    ELSE IF getTransfer(transferId).confirmations = 0 THEN "TransferNotFound"
    ELSE IF getTransfer(transferId).completed THEN "AlreadyCompleted"
    ELSE IF <<transferId, caller>> \in hasConfirmed THEN "AlreadyConfirmed"
    ELSE "ok"

confirmTransferError(caller, transferId) ==
    IF caller \notin relayerRole THEN "AccessControlUnauthorizedAccount"
    ELSE IF getTransfer(transferId).timestamp = 0 THEN "TransferNotFound"
    ELSE IF getTransfer(transferId).completed THEN "AlreadyCompleted"
    ELSE IF <<transferId, caller>> \in hasConfirmed THEN "AlreadyConfirmed"
    ELSE "ok"

\* Completion decided with > instead of >=.
confirmTransferWritesStrict(caller, transferId) ==
    LET n == transfers[transferId].confirmations + 1 IN
    /\ hasConfirmed' = hasConfirmed \cup {<<transferId, caller>>}
    /\ transfers' = [transfers EXCEPT
                       ![transferId].confirmations = n,
                       ![transferId].completed = (n > config.relayerThreshold)]

\* The caller's flag not recorded.
confirmTransferWritesNoFlag(caller, transferId) ==
    LET n == transfers[transferId].confirmations + 1 IN
    /\ hasConfirmed' = hasConfirmed
    /\ transfers' = [transfers EXCEPT
                       ![transferId].confirmations = n,
                       ![transferId].completed = (n >= config.relayerThreshold)]

\* Completion decided against a fixed threshold of 1, not the stored one.
confirmTransferWritesFixedThreshold(caller, transferId) ==
    LET n == transfers[transferId].confirmations + 1 IN
    /\ hasConfirmed' = hasConfirmed \cup {<<transferId, caller>>}
    /\ transfers' = [transfers EXCEPT
                       ![transferId].confirmations = n,
                       ![transferId].completed = (n >= 1)]

\* The storage writes of a confirmTransfer that passed its checks.
confirmTransferWrites(caller, transferId) ==
    LET n == transfers[transferId].confirmations + 1 IN
    /\ hasConfirmed' = hasConfirmed \cup {<<transferId, caller>>}
    /\ transfers' = [transfers EXCEPT
                       ![transferId].confirmations = n,
                       ![transferId].completed = (n >= config.relayerThreshold)]

\* The transaction's effect on the ledger.
confirmTransferTx(caller, transferId) ==
    LET err == confirmTransferError(caller, transferId) IN
    /\ variant = "bool"
    /\ IF err # "ok" THEN Revert(err)
       ELSE
        /\ confirmTransferWrites(caller, transferId)
        /\ result' = "ok"
        /\ UNCHANGED <<variant, config, transferNonce, supportedTokens,
                       relayerConfirmations, collectedFees, paused, relayerRole,
                       nativeCustody, tokenCustody, logs, unlocked, feesPaid>>

\* confirmTransfer sent by an account directly.
confirmTransfer(caller, transferId) ==
    /\ confirmTransferTx(caller, transferId)
    /\ UNCHANGED <<blockNumber, wton, relayerVars>>

updateConfig(caller, newConfig) ==
    /\ variant = "bool"
    /\ IF caller # Admin THEN Revert("AccessControlUnauthorizedAccount")
       ELSE
        /\ config' = newConfig
        /\ result' = "ok"
        /\ UNCHANGED <<variant, transferNonce, supportedTokens, transfers,
                       hasConfirmed, relayerConfirmations, collectedFees, paused,
                       relayerRole, nativeCustody, tokenCustody, logs, unlocked,
                       feesPaid>>
    /\ UNCHANGED <<blockNumber, wton, relayerVars>>

\* setSupportedToken open to every caller.
setSupportedTokenAnyCaller(caller, token, supported) ==
    /\ variant = "bool"
    /\ supportedTokens' = [supportedTokens EXCEPT ![token] = supported]
    /\ result' = "ok"
    /\ UNCHANGED <<variant, config, transferNonce, transfers, hasConfirmed,
                   relayerConfirmations, collectedFees, paused, relayerRole,
                   nativeCustody, tokenCustody, logs, unlocked, feesPaid>>
    /\ UNCHANGED <<blockNumber, wton, relayerVars>>

setSupportedToken(caller, token, supported) ==
    /\ variant = "bool"
    /\ IF caller # Admin THEN Revert("AccessControlUnauthorizedAccount")
       ELSE
        /\ supportedTokens' = [supportedTokens EXCEPT ![token] = supported]
        /\ result' = "ok"
        /\ UNCHANGED <<variant, config, transferNonce, transfers, hasConfirmed,
                       relayerConfirmations, collectedFees, paused, relayerRole,
                       nativeCustody, tokenCustody, logs, unlocked, feesPaid>>
    /\ UNCHANGED <<blockNumber, wton, relayerVars>>

\* AccessControl's grantRole(RELAYER_ROLE, account), by the admin.
grantRole(account) ==
    /\ relayerRole' = relayerRole \cup {account}
    /\ result' = "ok"
    /\ UNCHANGED <<variant, config, transferNonce, supportedTokens, transfers,
                   hasConfirmed, relayerConfirmations, collectedFees, paused,
                   nativeCustody, tokenCustody, logs, unlocked, feesPaid>>
    /\ UNCHANGED <<blockNumber, wton, relayerVars>>

\* AccessControl's revokeRole(RELAYER_ROLE, account), by the admin.
revokeRole(account) ==
    /\ relayerRole' = relayerRole \ {account}
    /\ result' = "ok"
    /\ UNCHANGED <<variant, config, transferNonce, supportedTokens, transfers,
                   hasConfirmed, relayerConfirmations, collectedFees, paused,
                   nativeCustody, tokenCustody, logs, unlocked, feesPaid>>
    /\ UNCHANGED <<blockNumber, wton, relayerVars>>

\* pause(): onlyRole(PAUSER_ROLE), then _pause(), which is whenNotPaused.
\* The same code in both variants.
pause(caller) ==
    /\ IF caller # Admin THEN Revert("AccessControlUnauthorizedAccount")
       ELSE IF paused THEN Revert("EnforcedPause")
       ELSE
        /\ paused' = TRUE
        /\ result' = "ok"
        /\ UNCHANGED <<variant, config, transferNonce, supportedTokens, transfers,
                       hasConfirmed, relayerConfirmations, collectedFees,
                       relayerRole, nativeCustody, tokenCustody, logs, unlocked,
                       feesPaid>>
    /\ UNCHANGED <<blockNumber, wton, relayerVars>>

\* unpause(): onlyRole(DEFAULT_ADMIN_ROLE), then _unpause(), which is whenPaused.
unpause(caller) ==
    /\ IF caller # Admin THEN Revert("AccessControlUnauthorizedAccount")
       ELSE IF ~paused THEN Revert("ExpectedPause")
       ELSE
        /\ paused' = FALSE
        /\ result' = "ok"
        /\ UNCHANGED <<variant, config, transferNonce, supportedTokens, transfers,
                       hasConfirmed, relayerConfirmations, collectedFees,
                       relayerRole, nativeCustody, tokenCustody, logs, unlocked,
                       feesPaid>>
    /\ UNCHANGED <<blockNumber, wton, relayerVars>>

\* The chain closes the block and starts the next one.
Mine ==
    /\ blockNumber < MaxBlock
    /\ blockNumber' = blockNumber + 1
    /\ UNCHANGED <<ledgerVars, wton, relayerVars>>

----------------------------------------------------------------------------
(* The status-enum variant (unnamed/part_005) *)

NoTransferEnum ==
    [sender |-> ZERO, tonRecipient |-> << >>, token |-> ZERO, amount |-> 0,
     fee |-> 0, timestamp |-> 0, tonTxHash |-> "0x0", status |-> "Pending",
     confirmations |-> 0]

getTransferEnum(id) ==
    IF id \in DOMAIN transfers THEN transfers[id] ELSE NoTransferEnum

\* part_005:194-201
transferIdEnum(sender, tonRecipient, token, amount, nonce, timestamp) ==
    keccak256(encodePacked(<<addr(sender), tonRecipient, addr(token), word(amount),
                             word(nonce), word(timestamp)>>))

\* part_005:300
unlockId(tonTxHash, recipient, token, amount) ==
    keccak256(encodePacked(<<addr(tonTxHash), addr(recipient), addr(token),
                             word(amount)>>))

bridgeToTONEnumError(tonRecipient, token, amount, value, pullOk) ==
    IF paused THEN "EnforcedPause"
    ELSE IF ~supportedTokens[token] THEN "UnsupportedToken"
    ELSE IF Len(tonRecipient) = 0 THEN "InvalidRecipient"
    ELSE IF amount < config.minBridgeAmount THEN "InsufficientAmount"
    ELSE IF amount > config.maxBridgeAmount THEN "ExceedsMaxAmount"
    ELSE IF feeOf(amount, config) > amount THEN "Panic"
    ELSE IF token = ZERO /\ value # amount THEN "Incorrect POL amount"
    ELSE IF token # ZERO /\ ~pullOk THEN "SafeERC20FailedOperation"
    ELSE "ok"

bridgeToTONEnum(sender, tonRecipient, token, amount, value, pullOk) ==
    LET err == bridgeToTONEnumError(tonRecipient, token, amount, value, pullOk)
        fee == feeOf(amount, config)
        netAmount == amount - fee
        transferId == transferIdEnum(sender, tonRecipient, token, amount,
                                     transferNonce, blockTimestamp)
    IN
    /\ variant = "enum"
    /\ IF err # "ok" THEN Revert(err)
       ELSE
        /\ transferNonce < MaxTransfers
        /\ transferNonce' = transferNonce + 1
        /\ nativeCustody' = nativeCustody + value
        /\ tokenCustody' = IF token = ZERO THEN tokenCustody
                           ELSE [tokenCustody EXCEPT ![token] = @ + amount]
        /\ transfers' = [id \in DOMAIN transfers \cup {transferId} |->
                           IF id = transferId
                           THEN [sender |-> sender, tonRecipient |-> tonRecipient,
                                 token |-> token, amount |-> netAmount, fee |-> fee,
                                 timestamp |-> blockTimestamp, tonTxHash |-> "0x0",
                                 status |-> "Pending", confirmations |-> 0]
                           ELSE transfers[id]]
        /\ collectedFees' = collectedFees + fee
        /\ logs' = Append(logs, [transferId |-> transferId, sender |-> sender,
                                 tonRecipient |-> tonRecipient, token |-> token,
                                 amount |-> netAmount, fee |-> fee,
                                 blockNumber |-> blockNumber])
        /\ result' = "ok"
        /\ UNCHANGED <<variant, config, supportedTokens, hasConfirmed,
                       relayerConfirmations, paused, relayerRole, unlocked, feesPaid>>
    /\ UNCHANGED <<blockNumber, wton, relayerVars>>

\* The checks of confirmTransfer without the one on the status.
confirmTransferEnumErrorNoStatusCheck(caller, transferId) ==
    IF caller \notin relayerRole THEN "AccessControlUnauthorizedAccount"
    ELSE IF paused THEN "EnforcedPause"
    ELSE IF getTransferEnum(transferId).sender = ZERO THEN "TransferNotFound"
    ELSE IF <<transferId, caller>> \in relayerConfirmations THEN "AlreadyConfirmed"
    ELSE "ok"

confirmTransferEnumError(caller, transferId) ==
    IF caller \notin relayerRole THEN "AccessControlUnauthorizedAccount"
    ELSE IF paused THEN "EnforcedPause"
    ELSE IF getTransferEnum(transferId).sender = ZERO THEN "TransferNotFound"
    ELSE IF getTransferEnum(transferId).status # "Pending" THEN "TransferAlreadyProcessed"
    ELSE IF <<transferId, caller>> \in relayerConfirmations THEN "AlreadyConfirmed"
    ELSE "ok"

\* The storage writes of a confirmTransfer that passed its checks.
confirmTransferEnumWrites(caller, transferId) ==
    LET n == transfers[transferId].confirmations + 1 IN
    /\ relayerConfirmations' = relayerConfirmations \cup {<<transferId, caller>>}
    /\ transfers' = [transfers EXCEPT
                       ![transferId].confirmations = n,
                       ![transferId].status = IF n >= config.relayerThreshold
                                              THEN "Confirmed" ELSE @]

confirmTransferEnum(caller, transferId) ==
    LET err == confirmTransferEnumError(caller, transferId) IN
    /\ variant = "enum"
    /\ IF err # "ok" THEN Revert(err)
       ELSE
        /\ confirmTransferEnumWrites(caller, transferId)
        /\ result' = "ok"
        /\ UNCHANGED <<variant, config, transferNonce, supportedTokens, hasConfirmed,
                       collectedFees, paused, relayerRole, nativeCustody,
                       tokenCustody, logs, unlocked, feesPaid>>
    /\ UNCHANGED <<blockNumber, wton, relayerVars>>

completeTransfer(caller, transferId, tonTxHash) ==
    /\ variant = "enum"
    /\ IF caller # Admin THEN Revert("AccessControlUnauthorizedAccount")
       ELSE IF getTransferEnum(transferId).status # "Confirmed"
       THEN Revert("InsufficientConfirmations")
       ELSE
        /\ transfers' = [transfers EXCEPT ![transferId].tonTxHash = tonTxHash,
                                          ![transferId].status = "Completed"]
        /\ result' = "ok"
        /\ UNCHANGED <<variant, config, transferNonce, supportedTokens, hasConfirmed,
                       relayerConfirmations, collectedFees, paused, relayerRole,
                       nativeCustody, tokenCustody, logs, unlocked, feesPaid>>
    /\ UNCHANGED <<blockNumber, wton, relayerVars>>

\* The replay guard of unlockTokens (part_005:303-304): TRUE lets the payout go on.
unlockGuard(transferId) ==
    \/ getTransferEnum(transferId).status = "Pending"
    \/ getTransferEnum(transferId).sender = ZERO

\* recvOk: whether the recipient accepts the native value sent to it.
unlockTokensError(caller, recipient, token, amount, tonTxHash, recvOk) ==
    IF caller \notin relayerRole THEN "AccessControlUnauthorizedAccount"
    ELSE IF paused THEN "EnforcedPause"
    ELSE IF recipient = ZERO THEN "Invalid recipient"
    ELSE IF ~supportedTokens[token] THEN "UnsupportedToken"
    ELSE IF ~unlockGuard(unlockId(tonTxHash, recipient, token, amount))
         THEN "Already processed"
    ELSE IF token = ZERO /\ (amount > nativeCustody \/ ~recvOk) THEN "POL transfer failed"
    ELSE IF token # ZERO /\ amount > tokenCustody[token] THEN "SafeERC20FailedOperation"
    ELSE "ok"

unlockTokens(caller, recipient, token, amount, tonTxHash, recvOk) ==
    LET err == unlockTokensError(caller, recipient, token, amount, tonTxHash, recvOk)
        transferId == unlockId(tonTxHash, recipient, token, amount)
    IN
    /\ variant = "enum"
    /\ IF err # "ok" THEN Revert(err)
       ELSE
        /\ Len(unlocked) < MaxUnlocks
        /\ nativeCustody' = IF token = ZERO THEN nativeCustody - amount
                            ELSE nativeCustody
        /\ tokenCustody' = IF token = ZERO THEN tokenCustody
                           ELSE [tokenCustody EXCEPT ![token] = @ - amount]
        /\ unlocked' = Append(unlocked, [transferId |-> transferId,
                                         recipient |-> recipient, token |-> token,
                                         amount |-> amount])
        /\ result' = "ok"
        /\ UNCHANGED <<variant, config, transferNonce, supportedTokens, transfers,
                       hasConfirmed, relayerConfirmations, collectedFees, paused,
                       relayerRole, logs, feesPaid>>
    /\ UNCHANGED <<blockNumber, wton, relayerVars>>

\* withdrawFees that pays the collector and keeps the running total.
withdrawFeesNoReset(caller, recvOk) ==
    /\ variant = "enum"
    /\ IF caller # Admin THEN Revert("AccessControlUnauthorizedAccount")
       ELSE IF ~recvOk \/ collectedFees > nativeCustody THEN Revert("Fee transfer failed")
       ELSE
        /\ nativeCustody' = nativeCustody - collectedFees
        /\ feesPaid' = feesPaid + collectedFees
        /\ result' = "ok"
        /\ UNCHANGED <<variant, config, transferNonce, supportedTokens, transfers,
                       hasConfirmed, relayerConfirmations, collectedFees, paused,
                       relayerRole, tokenCustody, logs, unlocked>>
    /\ UNCHANGED <<blockNumber, wton, relayerVars>>

\* withdrawFees(): the admin sends the running total, in native value, to
\* feeCollector and zeroes it.  The call fails when the collector rejects
\* the value (recvOk false) or the bridge holds less native value than the
\* total; the require then reverts the zeroing as well.
withdrawFees(caller, recvOk) ==
    /\ variant = "enum"
    /\ IF caller # Admin THEN Revert("AccessControlUnauthorizedAccount")
       ELSE IF ~recvOk \/ collectedFees > nativeCustody THEN Revert("Fee transfer failed")
       ELSE
        /\ collectedFees' = 0
        /\ nativeCustody' = nativeCustody - collectedFees
        /\ feesPaid' = feesPaid + collectedFees
        /\ result' = "ok"
        /\ UNCHANGED <<variant, config, transferNonce, supportedTokens, transfers,
                       hasConfirmed, relayerConfirmations, paused,
                       relayerRole, tokenCustody, logs, unlocked>>
    /\ UNCHANGED <<blockNumber, wton, relayerVars>>

updateConfigEnum(caller, newConfig) ==
    /\ variant = "enum"
    /\ IF caller # Admin THEN Revert("AccessControlUnauthorizedAccount")
       ELSE IF newConfig.minBridgeAmount >= newConfig.maxBridgeAmount
       THEN Revert("InvalidConfiguration")
       ELSE IF newConfig.feeBasisPoints > 1000 THEN Revert("InvalidConfiguration")
       ELSE
        /\ config' = newConfig
        /\ result' = "ok"
        /\ UNCHANGED <<variant, transferNonce, supportedTokens, transfers,
                       hasConfirmed, relayerConfirmations, collectedFees, paused,
                       relayerRole, nativeCustody, tokenCustody, logs, unlocked,
                       feesPaid>>
    /\ UNCHANGED <<blockNumber, wton, relayerVars>>

setSupportedTokenEnum(caller, token, supported) ==
    /\ variant = "enum"
    /\ IF caller # Admin THEN Revert("AccessControlUnauthorizedAccount")
       ELSE
        /\ supportedTokens' = [supportedTokens EXCEPT ![token] = supported]
        /\ result' = "ok"
        /\ UNCHANGED <<variant, config, transferNonce, transfers, hasConfirmed,
                       relayerConfirmations, collectedFees, paused, relayerRole,
                       nativeCustody, tokenCustody, logs, unlocked, feesPaid>>
    /\ UNCHANGED <<blockNumber, wton, relayerVars>>

----------------------------------------------------------------------------
(* The relayer (unnamed/part_006:112-250, relayer/src/tonService.ts:31-121) *)
(*                                                                          *)
(* A relayer process signs with the wallet of its own name.  Every await of *)
(* poll() is a point where the call is suspended and others run; the steps  *)
(* below are the stretches of code between two awaits.  setInterval calls   *)
(* poll() again every POLL_INTERVAL whether or not an earlier call has      *)
(* returned: the calls of one process in progress at once are told apart by *)
(* a slot number, and p below is a call <<process, slot>>.  The calls of a  *)
(* process share its cursor lastBlock.                                      *)

Slots == 1..MaxCycles

owner(p) == p[1]                   \* the process that made the call

threadsOf(proc) == {<<proc, k>> : k \in Slots}

maxRetries == 3                    \* tonService.ts:58

head == blockNumber - 1            \* provider.getBlockNumber(): the last mined block

Idle == [pc |-> "idle"]

\* The slot of a process that has exited.
Down == [pc |-> "down"]

\* Address.parse(tonRecipient): the empty string is no TON address.
validTonAddress(tonRecipient) == Len(tonRecipient) > 0

\* toNano(ethers.formatEther(amount)): the amount read as TON and turned
\* into nanoTON.  An amount of the model is a multiple of 10^14 wei (1 ether
\* is 10000), a decimal of at most 4 places, so toNano does not throw on it
\* (it throws on more than 9 places) and 1 unit is 10^5 nanoTON.
NanoPerUnit == 100000
toNano(amount) == amount * NanoPerUnit

\* provider.getLogs(filter): the BridgeInitiated entries of blocks from..to, in order.
getLogs(from, to) ==
    SelectSeq(logs, LAMBDA e : e.blockNumber >= from /\ e.blockNumber <= to)

\* main(): let lastBlock = await provider.getBlockNumber().  The cursor is
\* a local of main(): a process that starts again starts from the head.
startRelayer(proc) ==
    /\ proc \in DOMAIN lastBlock => \A p \in threadsOf(proc) : cycle[p] = Down
    /\ lastBlock' = [q \in DOMAIN lastBlock \cup {proc} |->
                        IF q = proc THEN head ELSE lastBlock[q]]
    /\ cycle' = [q \in DOMAIN cycle \cup threadsOf(proc) |->
                    IF q \in threadsOf(proc) THEN Idle ELSE cycle[q]]
    /\ UNCHANGED <<ledgerVars, blockNumber, wton, tonPayments>>

\* The process exits (killed, crashed, or main()'s catch): its poll() calls
\* in progress are gone.  lastBlock keeps the value the process held when it
\* exited; nothing reads it, startRelayer overwrites it.
stopRelayer(proc) ==
    /\ proc \in DOMAIN lastBlock
    /\ \E p \in threadsOf(proc) : cycle[p] # Down
    /\ cycle' = [q \in DOMAIN cycle |-> IF q \in threadsOf(proc) THEN Down ELSE cycle[q]]
    /\ UNCHANGED <<ledgerVars, blockNumber, wton, tonPayments, lastBlock>>

\* The for loop moves on to the next log of the cycle, or poll() returns.
nextLog(c) ==
    IF Len(c.queue) <= 1 THEN Idle
    ELSE [pc |-> "getTransfer", queue |-> Tail(c.queue)]

\* setInterval fires: poll() is called and awaits getBlockNumber.
pollStart(p) ==
    /\ p \in DOMAIN cycle /\ cycle[p].pc = "idle"
    /\ cycle' = [cycle EXCEPT ![p] = [pc |-> "getBlockNumber"]]
    /\ UNCHANGED <<ledgerVars, blockNumber, wton, tonPayments, lastBlock>>

\* The node answers getBlockNumber with the height it has, and the answer
\* waits for the call to resume while blocks go on being mined.
pollHeight(p) ==
    /\ p \in DOMAIN cycle /\ cycle[p].pc = "getBlockNumber"
    /\ "current" \notin DOMAIN cycle[p]
    /\ cycle' = [cycle EXCEPT ![p] = [pc |-> "getBlockNumber", current |-> head]]
    /\ UNCHANGED <<ledgerVars, blockNumber, wton, tonPayments, lastBlock>>

\* const current = await provider.getBlockNumber(): the answer that waited,
\* or the height at the moment the call resumes.
answered(c) == IF "current" \in DOMAIN c THEN c.current ELSE head

\* The range taken without the test current <= lastBlock.
pollRangeNoGuard(p) ==
    /\ p \in DOMAIN cycle /\ cycle[p].pc = "getBlockNumber"
    /\ cycle' = [cycle EXCEPT ![p] =
                    [pc |-> "getLogs", from |-> lastBlock[owner(p)] + 1,
                     to |-> answered(cycle[p])]]
    /\ lastBlock' = [lastBlock EXCEPT ![owner(p)] = answered(cycle[p])]
    /\ UNCHANGED <<ledgerVars, blockNumber, wton, tonPayments>>

\* getBlockNumber answers: the range is fixed, the cursor advanced, getLogs awaited.
pollRange(p) ==
    /\ p \in DOMAIN cycle /\ cycle[p].pc = "getBlockNumber"
    /\ IF answered(cycle[p]) <= lastBlock[owner(p)]
       THEN /\ cycle' = [cycle EXCEPT ![p] = Idle]
            /\ UNCHANGED lastBlock
       ELSE /\ cycle' = [cycle EXCEPT ![p] =
                           [pc |-> "getLogs", from |-> lastBlock[owner(p)] + 1,
                            to |-> answered(cycle[p])]]
            /\ lastBlock' = [lastBlock EXCEPT ![owner(p)] = answered(cycle[p])]
    /\ UNCHANGED <<ledgerVars, blockNumber, wton, tonPayments>>

\* getLogs answers.
pollLogs(p) ==
    /\ p \in DOMAIN cycle /\ cycle[p].pc = "getLogs"
    /\ LET found == getLogs(cycle[p].from, cycle[p].to) IN
       cycle' = [cycle EXCEPT ![p] =
                    IF Len(found) = 0 THEN Idle
                    ELSE [pc |-> "getTransfer", queue |-> found]]
    /\ UNCHANGED <<ledgerVars, blockNumber, wton, tonPayments, lastBlock>>

\* The record read and its completed flag ignored.
pollTransferNoSkip(p) ==
    /\ p \in DOMAIN cycle /\ cycle[p].pc = "getTransfer"
    /\ LET c == cycle[p]
           t == getTransfer(Head(c.queue).transferId)
       IN cycle' = [cycle EXCEPT ![p] =
                      IF ~validTonAddress(t.tonRecipient) THEN Idle
                      ELSE [pc |-> "sendNativeTon", queue |-> c.queue, t |-> t,
                            attempt |-> 1]]
    /\ UNCHANGED <<ledgerVars, blockNumber, wton, tonPayments, lastBlock>>

\* bridge.getTransfer answers: a completed transfer is skipped; otherwise
\* sendNativeTon is called, which throws when the recipient does not parse.
pollTransfer(p) ==
    /\ p \in DOMAIN cycle /\ cycle[p].pc = "getTransfer"
    /\ LET c == cycle[p]
           t == getTransfer(Head(c.queue).transferId)
       IN cycle' = [cycle EXCEPT ![p] =
                      IF t.completed THEN nextLog(c)
                      ELSE IF ~validTonAddress(t.tonRecipient) THEN Idle
                      ELSE [pc |-> "sendNativeTon", queue |-> c.queue, t |-> t,
                            attempt |-> 1]]
    /\ UNCHANGED <<ledgerVars, blockNumber, wton, tonPayments, lastBlock>>

\* The confirmation submitted also when the send was given up.
sendNativeTonThenConfirm(p, sent) ==
    /\ p \in DOMAIN cycle /\ cycle[p].pc = "sendNativeTon"
    /\ LET c == cycle[p] IN
       IF sent
       THEN /\ tonPayments' = tonPayments (+) SetToBag({[transferId |-> Head(c.queue).transferId,
                                                         to |-> c.t.tonRecipient,
                                                         value |-> toNano(c.t.amount)]})
            /\ cycle' = [cycle EXCEPT ![p] = [pc |-> "confirmTransfer", queue |-> c.queue,
                                               attempt |-> c.attempt]]
       ELSE /\ UNCHANGED tonPayments
            /\ cycle' = [cycle EXCEPT ![p] =
                           IF c.attempt = maxRetries
                           THEN [pc |-> "confirmTransfer", queue |-> c.queue,
                                 attempt |-> c.attempt]
                           ELSE [c EXCEPT !.attempt = @ + 1]]
    /\ UNCHANGED <<ledgerVars, blockNumber, wton, lastBlock>>

\* The retry loop started over after the last failed pass.
sendNativeTonRetriesForever(p, sent) ==
    /\ p \in DOMAIN cycle /\ cycle[p].pc = "sendNativeTon"
    /\ LET c == cycle[p] IN
       IF sent
       THEN /\ tonPayments' = tonPayments (+) SetToBag({[transferId |-> Head(c.queue).transferId,
                                                         to |-> c.t.tonRecipient,
                                                         value |-> toNano(c.t.amount)]})
            /\ cycle' = [cycle EXCEPT ![p] = [pc |-> "confirmTransfer", queue |-> c.queue,
                                               attempt |-> c.attempt]]
       ELSE /\ UNCHANGED tonPayments
            /\ cycle' = [cycle EXCEPT ![p] =
                           [c EXCEPT !.attempt = IF @ = maxRetries THEN 1 ELSE @ + 1]]
    /\ UNCHANGED <<ledgerVars, blockNumber, wton, lastBlock>>

\* The send given up after the first failed pass.
sendNativeTonNoRetry(p, sent) ==
    /\ p \in DOMAIN cycle /\ cycle[p].pc = "sendNativeTon"
    /\ LET c == cycle[p] IN
       IF sent
       THEN /\ tonPayments' = tonPayments (+) SetToBag({[transferId |-> Head(c.queue).transferId,
                                                         to |-> c.t.tonRecipient,
                                                         value |-> toNano(c.t.amount)]})
            /\ cycle' = [cycle EXCEPT ![p] = [pc |-> "confirmTransfer", queue |-> c.queue,
                                               attempt |-> c.attempt]]
       ELSE /\ UNCHANGED tonPayments
            /\ cycle' = [cycle EXCEPT ![p] = nextLog(c)]
    /\ UNCHANGED <<ledgerVars, blockNumber, wton, lastBlock>>

\* One pass of sendNativeTon's retry loop; sent is whether getSeqno and
\* sendTransfer went through.  The pass that sent (logged as "attempt") is
\* kept while the confirmation is pending.
sendNativeTon(p, sent) ==
    /\ p \in DOMAIN cycle /\ cycle[p].pc = "sendNativeTon"
    /\ LET c == cycle[p] IN
       IF sent
       THEN /\ tonPayments' = tonPayments (+) SetToBag({[transferId |-> Head(c.queue).transferId,
                                                         to |-> c.t.tonRecipient,
                                                         value |-> toNano(c.t.amount)]})
            /\ cycle' = [cycle EXCEPT ![p] = [pc |-> "confirmTransfer", queue |-> c.queue,
                                               attempt |-> c.attempt]]
       ELSE /\ UNCHANGED tonPayments
            /\ cycle' = [cycle EXCEPT ![p] =
                           IF c.attempt = maxRetries THEN nextLog(c)
                           ELSE [c EXCEPT !.attempt = @ + 1]]
    /\ UNCHANGED <<ledgerVars, blockNumber, wton, lastBlock>>

\* bridge.confirmTransfer(transferId) is mined; a revert is thrown into
\* poll()'s catch, which ends the cycle.
pollConfirm(p) ==
    /\ p \in DOMAIN cycle /\ cycle[p].pc = "confirmTransfer"
    /\ confirmTransferTx(owner(p), Head(cycle[p].queue).transferId)
    /\ cycle' = [cycle EXCEPT ![p] =
                    IF result' = "ok"
                    THEN [pc |-> "after", queue |-> cycle[p].queue,
                          attempt |-> cycle[p].attempt]
                    ELSE Idle]
    /\ UNCHANGED <<blockNumber, wton, tonPayments, lastBlock>>

\* The read-back after the confirmation, then the next log.
pollAfter(p) ==
    /\ p \in DOMAIN cycle /\ cycle[p].pc = "after"
    /\ cycle' = [cycle EXCEPT ![p] = nextLog(cycle[p])]
    /\ UNCHANGED <<ledgerVars, blockNumber, wton, tonPayments, lastBlock>>

\* An awaited Polygon RPC call fails: poll()'s catch logs it and the cycle is over.
pollError(p) ==
    /\ p \in DOMAIN cycle
    /\ cycle[p].pc \in {"getBlockNumber", "getLogs", "getTransfer", "confirmTransfer", "after"}
    /\ cycle' = [cycle EXCEPT ![p] = Idle]
    /\ UNCHANGED <<ledgerVars, blockNumber, wton, tonPayments, lastBlock>>

----------------------------------------------------------------------------
(* The ledger after initialize *)

InitLedger(v) ==
    /\ variant = v
    /\ transferNonce = 0
    /\ supportedTokens = [t \in Tokens |-> t = ZERO]
    /\ transfers = << >>
    /\ hasConfirmed = {}
    /\ relayerConfirmations = {}
    /\ collectedFees = 0
    /\ paused = FALSE
    /\ relayerRole = {}
    /\ nativeCustody = 0
    /\ tokenCustody = [t \in Tokens \ {ZERO} |-> 0]
    /\ blockNumber = 1
    /\ wton = NoToken
    /\ logs = << >>
    /\ unlocked = << >>
    /\ feesPaid = 0
    /\ result = "ok"

\* No relayer process is running.
InitRelayerIdle ==
    /\ tonPayments = EmptyBag
    /\ lastBlock = << >>
    /\ cycle = << >>

KnownIds == DOMAIN transfers \cup {BogusId}

----------------------------------------------------------------------------
(* Spec: the quorum protocol.  Requests are of one shape; relayers attest,  *)
(* the admin changes the threshold and grants and revokes RELAYER_ROLE.     *)

QuorumConfigs == {[BaseConfig EXCEPT !.relayerThreshold = t] : t \in {0, 1, 2}}

Init ==
    /\ \E v \in {"bool", "enum"} : InitLedger(v)
    /\ config \in QuorumConfigs
    /\ InitRelayerIdle

TonTxHashes == {"h1", "h2"}

Next ==
    \/ bridgeToTON(User, <<"E">>, ZERO, 10000, 10000, TRUE)
    \/ \E c \in Relayers \cup {User}, id \in KnownIds : confirmTransfer(c, id)
    \/ \E c \in {Admin, User}, cfg \in QuorumConfigs : updateConfig(c, cfg)
    \/ \E a \in Relayers : grantRole(a)
    \/ \E a \in Relayers : revokeRole(a)
    \/ bridgeToTONEnum(User, <<"E">>, ZERO, 10000, 10000, TRUE)
    \/ \E c \in Relayers \cup {User}, id \in KnownIds : confirmTransferEnum(c, id)
    \/ \E c \in {Admin, User}, cfg \in QuorumConfigs : updateConfigEnum(c, cfg)
    \/ \E c \in {Admin, User}, id \in KnownIds : completeTransfer(c, id, "h1")

Spec == Init /\ [][Next]_vars

----------------------------------------------------------------------------
(* SpecUnlock: the reverse direction of the enum variant.  Native value     *)
(* enters custody by requests; one relayer attests and releases value for   *)
(* TON-side transactions; the operator completes transfers.                 *)

InitUnlock ==
    /\ InitLedger("enum")
    /\ config = BaseConfig
    /\ InitRelayerIdle

NextUnlock ==
    \/ grantRole("r1")
    \/ bridgeToTONEnum(User, <<"E">>, ZERO, 10000, 10000, TRUE)
    \/ \E id \in KnownIds : confirmTransferEnum("r1", id)
    \/ \E id \in KnownIds : completeTransfer(Admin, id, "h1")
    \/ \E c \in {"r1", User}, to \in {User, ZERO}, a \in {9970, 30},
          h \in TonTxHashes, ok \in BOOLEAN : unlockTokens(c, to, ZERO, a, h, ok)

SpecUnlock == InitUnlock /\ [][NextUnlock]_vars

----------------------------------------------------------------------------
(* SpecRequest: the request side.  Callers submit requests of every shape   *)
(* while the admin replaces the configuration and blocks are mined.         *)

RequestConfigs ==
    {BaseConfig,
     [BaseConfig EXCEPT !.enabled = FALSE],
     [BaseConfig EXCEPT !.feeBasisPoints = 20000],
     [BaseConfig EXCEPT !.minBridgeAmount = 10000]}

\* Above the enum variant's fee ceiling of 1000 basis points.
UpdateOnlyConfig == [BaseConfig EXCEPT !.feeBasisPoints = 1001]

InitRequest ==
    /\ \E v \in {"bool", "enum"} : InitLedger(v)
    /\ config \in RequestConfigs
    /\ InitRelayerIdle

NextRequest ==
    \/ \E r \in Recipients, t \in Tokens, a \in Amounts, v \in {0, 50}, ok \in BOOLEAN :
          bridgeToTON(User, r, t, a, IF t = ZERO /\ v = 0 THEN a ELSE v, ok)
    \/ \E c \in {Admin, User}, cfg \in RequestConfigs : updateConfig(c, cfg)
    \/ \E c \in {Admin, User}, b \in BOOLEAN : setSupportedToken(c, TOK, b)
    \/ \E r \in Recipients, t \in Tokens, a \in Amounts, v \in {0, 50}, ok \in BOOLEAN :
          bridgeToTONEnum(User, r, t, a, IF t = ZERO /\ v = 0 THEN a ELSE v, ok)
    \/ \E c \in {Admin, User}, cfg \in RequestConfigs \cup {UpdateOnlyConfig} :
          updateConfigEnum(c, cfg)
    \/ \E c \in {Admin, User}, b \in BOOLEAN : setSupportedTokenEnum(c, TOK, b)

SpecRequest == InitRequest /\ [][NextRequest]_vars

----------------------------------------------------------------------------
(* SpecRelayer: two relayer processes against the deployed "bool" ledger,   *)
(* each making one poll() call at a time.                                   *)

Procs == {"r1", "r2"}

\* Every poll() call returns before the next one is made.
RelayerThreads == {<<proc, 1>> : proc \in Procs}

RelayerConfigs == {[BaseConfig EXCEPT !.relayerThreshold = t] : t \in {1, 2}}

\* The deployed bridge, RELAYER_ROLE granted to the relayers' wallets as
\* the deployment does (tests/PolygonBridge.test.ts:40-42).
deployedLedger ==
    /\ variant = "bool"
    /\ transferNonce = 0
    /\ supportedTokens = [t \in Tokens |-> t = ZERO]
    /\ transfers = << >>
    /\ hasConfirmed = {}
    /\ relayerConfirmations = {}
    /\ collectedFees = 0
    /\ paused = FALSE
    /\ relayerRole = Procs
    /\ nativeCustody = 0
    /\ tokenCustody = [t \in Tokens \ {ZERO} |-> 0]
    /\ blockNumber = 1
    /\ wton = NoToken
    /\ logs = << >>
    /\ unlocked = << >>
    /\ feesPaid = 0
    /\ result = "ok"

InitRelayer ==
    /\ deployedLedger
    /\ config \in RelayerConfigs
    /\ InitRelayerIdle

NextRelayer ==
    \/ bridgeToTON(User, <<"E">>, ZERO, 10000, 10000, TRUE)
    \/ Mine
    \/ \E proc \in Procs : startRelayer(proc)
    \/ \E p \in RelayerThreads : pollStart(p)
    \/ \E p \in RelayerThreads : pollRange(p)
    \/ \E p \in RelayerThreads : pollLogs(p)
    \/ \E p \in RelayerThreads : pollTransfer(p)
    \/ \E p \in RelayerThreads, sent \in BOOLEAN : sendNativeTon(p, sent)
    \/ \E p \in RelayerThreads : pollConfirm(p)
    \/ \E p \in RelayerThreads : pollAfter(p)
    \/ \E p \in RelayerThreads : pollError(p)

SpecRelayer == InitRelayer /\ [][NextRelayer]_vars

----------------------------------------------------------------------------
(* SpecPause: the administration of the ledger.  The admin pauses and       *)
(* unpauses, replaces the configuration, changes the token list and grants  *)
(* RELAYER_ROLE, while requests (accepted and rejected) and attestations    *)
(* go on.                                                                    *)

PauseConfigs == {[BaseConfig EXCEPT !.relayerThreshold = t] : t \in {1, 2}}

PauseRelayers == {"r1", "r2"}

InitPause ==
    /\ \E v \in {"bool", "enum"} : InitLedger(v)
    /\ config \in PauseConfigs
    /\ InitRelayerIdle

NextPause ==
    \/ \E a \in {50, 10000} : bridgeToTON(User, <<"E">>, ZERO, a, a, TRUE)
    \/ \E c \in PauseRelayers \cup {User}, id \in KnownIds : confirmTransfer(c, id)
    \/ \E cfg \in PauseConfigs : updateConfig(Admin, cfg)
    \/ \E b \in BOOLEAN : setSupportedToken(Admin, TOK, b)
    \/ \E c \in {Admin, User} : pause(c)
    \/ \E c \in {Admin, User} : unpause(c)
    \/ \E a \in PauseRelayers : grantRole(a)
    \/ \E a \in {50, 10000} : bridgeToTONEnum(User, <<"E">>, ZERO, a, a, TRUE)
    \/ \E c \in PauseRelayers \cup {User}, id \in KnownIds : confirmTransferEnum(c, id)
    \/ \E cfg \in PauseConfigs : updateConfigEnum(Admin, cfg)
    \/ \E b \in BOOLEAN : setSupportedTokenEnum(Admin, TOK, b)

SpecPause == InitPause /\ [][NextPause]_vars

----------------------------------------------------------------------------
(* SpecProcess: one relayer process over its lifetime.  setInterval calls   *)
(* poll() whether or not earlier calls have returned, and the process exits *)
(* and is started again while requests and blocks keep arriving.            *)

\* The poll() calls of process r1 that can be suspended at the same time.
ProcessThreads == threadsOf("r1")

InitProcess ==
    /\ deployedLedger
    /\ config = BaseConfig
    /\ InitRelayerIdle

NextProcess ==
    \/ bridgeToTON(User, <<"E">>, ZERO, 10000, 10000, TRUE)
    \/ Mine
    \/ startRelayer("r1")
    \/ stopRelayer("r1")
    \/ \E p \in ProcessThreads : pollStart(p)
    \/ \E p \in ProcessThreads : pollHeight(p)
    \/ \E p \in ProcessThreads : pollRange(p)
    \/ \E p \in ProcessThreads : pollLogs(p)
    \/ \E p \in ProcessThreads : pollTransfer(p)
    \/ \E p \in ProcessThreads, sent \in BOOLEAN : sendNativeTon(p, sent)
    \/ \E p \in ProcessThreads : pollConfirm(p)
    \/ \E p \in ProcessThreads : pollAfter(p)
    \/ \E p \in ProcessThreads : pollError(p)

SpecProcess == InitProcess /\ [][NextProcess]_vars

----------------------------------------------------------------------------
(* SpecFees: the fee account of the enum variant.  Native and token         *)
(* requests are charged under two fee rates; the admin, and others, call    *)
(* withdrawFees, and the collector accepts or rejects the value.            *)

FeeConfigs == {BaseConfig, [BaseConfig EXCEPT !.feeBasisPoints = 100]}

FeeAmounts == {5000, 10000}

InitFees ==
    /\ InitLedger("enum")
    /\ config = BaseConfig
    /\ InitRelayerIdle

NextFees ==
    \/ \E t \in Tokens, a \in FeeAmounts :
          bridgeToTONEnum(User, <<"E">>, t, a, IF t = ZERO THEN a ELSE 0, TRUE)
    \/ \E cfg \in FeeConfigs : updateConfigEnum(Admin, cfg)
    \/ \E b \in BOOLEAN : setSupportedTokenEnum(Admin, TOK, b)
    \/ \E c \in {Admin, User}, ok \in BOOLEAN : withdrawFees(c, ok)

SpecFees == InitFees /\ [][NextFees]_vars

----------------------------------------------------------------------------
(* SpecRecords: the life of the Transfer records.  Identical requests are   *)
(* recorded, attested by two relayers and completed while the admin changes *)
(* the threshold and withdraws the fees.                                    *)

InitRecords ==
    /\ \E v \in {"bool", "enum"} : InitLedger(v)
    /\ config \in PauseConfigs
    /\ InitRelayerIdle

NextRecords ==
    \/ bridgeToTON(User, <<"E">>, ZERO, 10000, 10000, TRUE)
    \/ \E c \in PauseRelayers \cup {User}, id \in KnownIds : confirmTransfer(c, id)
    \/ \E cfg \in PauseConfigs : updateConfig(Admin, cfg)
    \/ \E a \in PauseRelayers : grantRole(a)
    \/ bridgeToTONEnum(User, <<"E">>, ZERO, 10000, 10000, TRUE)
    \/ \E c \in PauseRelayers \cup {User}, id \in KnownIds : confirmTransferEnum(c, id)
    \/ \E cfg \in PauseConfigs : updateConfigEnum(Admin, cfg)
    \/ \E c \in {Admin, User}, id \in KnownIds, h \in TonTxHashes :
          completeTransfer(c, id, h)
    \/ withdrawFees(Admin, TRUE)

SpecRecords == InitRecords /\ [][NextRecords]_vars

----------------------------------------------------------------------------
(* WrappedTON (contracts/polygon/token/WrappedTON.sol)                      *)

TokenRevert(err) ==
    /\ wton' = [wton EXCEPT !.result = err]
    /\ UNCHANGED <<ledgerVars, blockNumber, relayerVars>>

balanceOf(a) == IF a \in DOMAIN wton.balances THEN wton.balances[a] ELSE 0

RECURSIVE sumOver(_, _)
sumOver(f, S) ==
    IF S = {} THEN 0
    ELSE LET a == CHOOSE x \in S : TRUE IN f[a] + sumOver(f, S \ {a})

totalSupply == sumOver(wton.balances, DOMAIN wton.balances)

\* initialize(_admin, _bridge), run once by the proxy deployment
\* (upgrades.deployProxy(..., {initializer: "initialize"})).
initialize(admin, bridge) ==
    IF wton.initialized THEN TokenRevert("InvalidInitialization")
    ELSE IF admin = ZERO THEN TokenRevert("Invalid admin")
    ELSE IF bridge = ZERO THEN TokenRevert("Invalid bridge")
    ELSE
     /\ wton' = [wton EXCEPT !.initialized = TRUE, !.admins = {admin},
                             !.minters = {bridge}, !.pausers = {admin},
                             !.bridge = bridge, !.result = "ok"]
     /\ UNCHANGED <<ledgerVars, blockNumber, relayerVars>>

updateBridge(caller, newBridge) ==
    IF caller \notin wton.admins THEN TokenRevert("AccessControlUnauthorizedAccount")
    ELSE IF newBridge = ZERO THEN TokenRevert("Invalid bridge")
    ELSE
     /\ wton' = [wton EXCEPT !.minters = (@ \ {wton.bridge}) \cup {newBridge},
                             !.bridge = newBridge, !.result = "ok"]
     /\ UNCHANGED <<ledgerVars, blockNumber, relayerVars>>

mint(caller, to, amount) ==
    IF caller \notin wton.minters THEN TokenRevert("AccessControlUnauthorizedAccount")
    ELSE IF to = ZERO THEN TokenRevert("Invalid recipient")
    ELSE IF amount <= 0 THEN TokenRevert("Invalid amount")
    ELSE
     /\ totalSupply + amount <= MaxSupply
     /\ wton' = [wton EXCEPT
                   !.balances = [a \in DOMAIN wton.balances \cup {to} |->
                                   IF a = to THEN balanceOf(a) + amount
                                   ELSE wton.balances[a]],
                   !.result = "ok"]
     /\ UNCHANGED <<ledgerVars, blockNumber, relayerVars>>

burnForBridge(caller, amount, tonRecipient) ==
    IF Len(tonRecipient) = 0 THEN TokenRevert("Invalid recipient")
    ELSE IF amount <= 0 THEN TokenRevert("Invalid amount")
    ELSE IF balanceOf(caller) < amount THEN TokenRevert("ERC20InsufficientBalance")
    ELSE
     /\ wton' = [wton EXCEPT !.balances[caller] = @ - amount, !.result = "ok"]
     /\ UNCHANGED <<ledgerVars, blockNumber, relayerVars>>

----------------------------------------------------------------------------
(* SpecToken: the deployment of WrappedTON and its life.  The proxy is      *)
(* initialized with a bridge address, real or the zero placeholder; the     *)
(* admin and others redirect the bridge; bridges mint and holders burn.     *)

Bridges == {"bridgeA", "bridgeB"}

Holders == {User, Admin}

InitToken ==
    /\ InitLedger("bool")
    /\ config = BaseConfig
    /\ InitRelayerIdle

NextToken ==
    \/ \E a \in {Admin, ZERO}, b \in Bridges \cup {ZERO} : initialize(a, b)
    \/ \E c \in {Admin, User}, b \in Bridges \cup {ZERO} : updateBridge(c, b)
    \/ \E c \in Bridges \cup {User}, to \in Holders \cup {ZERO}, a \in {0, 1, 2} :
          mint(c, to, a)
    \/ \E c \in Holders, a \in {0, 1}, r \in Recipients : burnForBridge(c, a, r)

SpecToken == InitToken /\ [][NextToken]_vars

----------------------------------------------------------------------------
(* SpecSupport: the token list.  The admin and others add and remove        *)
(* tokens, the native sentinel included, while native and token requests    *)
(* arrive, a relayer attests, and the admin pauses and reconfigures.        *)

InitSupport ==
    /\ \E v \in {"bool", "enum"} : InitLedger(v)
    /\ config = BaseConfig
    /\ InitRelayerIdle

NextSupport ==
    \/ \E t \in Tokens : bridgeToTON(User, <<"E">>, t, 10000, IF t = ZERO THEN 10000 ELSE 0, TRUE)
    \/ \E c \in {Admin, User}, t \in Tokens, b \in BOOLEAN : setSupportedToken(c, t, b)
    \/ \E id \in KnownIds : confirmTransfer("r1", id)
    \/ \E cfg \in PauseConfigs : updateConfig(Admin, cfg)
    \/ grantRole("r1")
    \/ pause(Admin)
    \/ unpause(Admin)
    \/ \E t \in Tokens :
          bridgeToTONEnum(User, <<"E">>, t, 10000, IF t = ZERO THEN 10000 ELSE 0, TRUE)
    \/ \E c \in {Admin, User}, t \in Tokens, b \in BOOLEAN : setSupportedTokenEnum(c, t, b)
    \/ \E id \in KnownIds : confirmTransferEnum("r1", id)
    \/ \E cfg \in PauseConfigs : updateConfigEnum(Admin, cfg)
    \/ withdrawFees(Admin, TRUE)

SpecSupport == InitSupport /\ [][NextSupport]_vars

----------------------------------------------------------------------------
(* SpecSend: one relayer process making one poll() call at a time, in which *)
(* an invocation of sendNativeTon that can make a pass makes it: getSeqno   *)
(* and sendTransfer answer or throw, and the backoff timer fires.           *)

SendThreads == {<<"r1", 1>>}

NextSend ==
    \/ bridgeToTON(User, <<"E">>, ZERO, 10000, 10000, TRUE)
    \/ Mine
    \/ startRelayer("r1")
    \/ \E p \in SendThreads : pollStart(p)
    \/ \E p \in SendThreads : pollRange(p)
    \/ \E p \in SendThreads : pollLogs(p)
    \/ \E p \in SendThreads : pollTransfer(p)
    \/ \E p \in SendThreads, sent \in BOOLEAN : sendNativeTon(p, sent)
    \/ \E p \in SendThreads : pollConfirm(p)
    \/ \E p \in SendThreads : pollAfter(p)
    \/ \E p \in SendThreads : pollError(p)

SpecSend ==
    /\ InitProcess
    /\ [][NextSend]_vars
    /\ \A p \in SendThreads : WF_vars(\E sent \in BOOLEAN : sendNativeTon(p, sent))

----------------------------------------------------------------------------
(* Claims *)

\* The flags of the deployed variant: hasConfirmed / relayerConfirmations.
flags == IF variant = "bool" THEN hasConfirmed ELSE relayerConfirmations

attesters(id) == {r \in Accounts : <<id, r>> \in flags}

\* C1: for every transfer id, over any interleaving of the poll cycles of
\* the relayer processes, sendNativeTon sends at most one payment for that id.
C1_AtMostOnePayout ==
    \A pay \in BagToSet(tonPayments) :
        /\ CopiesIn(pay, tonPayments) <= 1
        /\ \A other \in BagToSet(tonPayments) :
             other.transferId = pay.transferId => other = pay

\* C2: in the enum variant no two payouts of unlockTokens carry the same
\* derived transferId: a release with the same (tonTxHash, recipient, token,
\* amount) pays out at most once.
C2_NoReplayedUnlock ==
    \A i, j \in 1..Len(unlocked) :
        i # j => unlocked[i].transferId # unlocked[j].transferId

\* C3: every successful bridgeToTON produced an id of its own, also for
\* identical (sender, tonRecipient, token, amount) in one block, and wrote a
\* fresh slot: the log entries' ids are pairwise distinct and there are as
\* many Transfer records as accepted requests.
C3_DistinctIds ==
    /\ \A i, j \in 1..Len(logs) : i # j => logs[i].transferId # logs[j].transferId
    /\ Cardinality(DOMAIN transfers) = Len(logs)
    /\ \A i \in 1..Len(logs) : logs[i].transferId \in DOMAIN transfers

\* Two accepted requests with identical contents, made in the same block.
C3_Witness ==
    \E i, j \in 1..Len(logs) :
        /\ i # j
        /\ [logs[i] EXCEPT !.transferId = << >>] = [logs[j] EXCEPT !.transferId = << >>]

\* The sum of the gross amounts (net amount + fee) of the native-asset requests.
RECURSIVE nativeGross(_)
nativeGross(es) ==
    IF es = << >> THEN 0
    ELSE (IF Head(es).token = ZERO THEN Head(es).amount + Head(es).fee ELSE 0)
         + nativeGross(Tail(es))

\* C9: on the "bool" PolygonBridge the native value in custody equals the
\* sum of the gross amounts of the recorded native-asset transfers.
C9_CustodyMatchesRecords ==
    variant = "bool" => nativeCustody = nativeGross(logs)

\* The amount bridgeToTON took into custody in this step, for the request
\* whose BridgeInitiated entry e the step appended.
custodied(e) ==
    IF e.token = ZERO THEN nativeCustody' - nativeCustody
    ELSE tokenCustody'[e.token] - tokenCustody[e.token]

\* C10: every accepted bridgeToTON(amount) on the "bool" PolygonBridge has
\* fee = floor(amount * feeBasisPoints / 10000) and fee + netAmount = amount,
\* netAmount being the amount of the Transfer record and of the event.
C10_FeeSplit ==
    [][(variant = "bool" /\ Len(logs') = Len(logs) + 1) =>
        LET e == logs'[Len(logs')]
            amount == custodied(e)
        IN /\ e.fee * 10000 <= amount * config.feeBasisPoints
           /\ amount * config.feeBasisPoints < (e.fee + 1) * 10000
           /\ e.fee + e.amount = amount
           /\ transfers'[e.transferId].amount = e.amount]_vars

\* 30 basis points on 1.0 (10000 units) give fee 0.003, and on 0.01 the
\* fee is rounded down to 0.
C10_Witness ==
    /\ variant = "bool"
    /\ \E i, j \in 1..Len(logs) :
        /\ logs[i].fee = 30 /\ logs[i].amount = 9970
        /\ logs[j].fee = 0 /\ logs[j].amount = 100

\* A transfer slot as the step leaves it.
after(id) == IF id \in DOMAIN transfers' THEN transfers'[id] ELSE NoTransfer

\* The step is a confirmTransfer that attested transfer id.
attested(id) == after(id).confirmations = getTransfer(id).confirmations + 1

\* The step makes transfer id completed.
completes(id) == after(id).completed /\ ~getTransfer(id).completed

\* C4 as stated: in the "bool" PolygonBridge, over any interleaving of
\* bridgeToTON, confirmTransfer and updateConfig (thresholds >= 1), a transfer
\* becomes completed exactly in the step in which its confirmations count
\* first reaches config.relayerThreshold, and completed never becomes false.
C4_CompletedWhenCountReachesThreshold ==
    [][(variant = "bool" /\ config.relayerThreshold >= 1 /\ config'.relayerThreshold >= 1) =>
        \A id \in DOMAIN transfers' :
            /\ getTransfer(id).completed => after(id).completed
            /\ completes(id) <=>
                 /\ getTransfer(id).confirmations < config.relayerThreshold
                 /\ after(id).confirmations >= config'.relayerThreshold]_vars

\* C4 amended: a transfer becomes completed exactly in the confirmTransfer
\* step whose incremented confirmations count is >= config.relayerThreshold
\* as stored at that step, and completed never becomes false again.
C4_CompletedByAttestationAtThreshold ==
    [][variant = "bool" =>
        \A id \in DOMAIN transfers' :
            /\ getTransfer(id).completed => after(id).completed
            /\ completes(id) <=>
                 /\ attested(id)
                 /\ after(id).confirmations >= config.relayerThreshold]_vars

\* A transfer completed by its second attestation, and one whose count is at
\* the threshold (after the threshold was lowered) but is not completed.
C4_Witness ==
    /\ variant = "bool"
    /\ \E id \in DOMAIN transfers :
         transfers[id].completed /\ transfers[id].confirmations = 2
    /\ \E id \in DOMAIN transfers :
         /\ ~transfers[id].completed
         /\ transfers[id].confirmations >= config.relayerThreshold
         /\ config.relayerThreshold >= 1

\* C5: in both variants confirmations is the number of distinct accounts
\* whose flag for the transfer is set (and flags exist for created transfers
\* only); a step that changes a count is a confirmTransfer, raises the count
\* by exactly 1 and sets exactly one flag, the caller's for this transfer,
\* which was not set.
C5_CountIsNumberOfFlags ==
    /\ [](/\ \A id \in DOMAIN transfers :
                transfers[id].confirmations = Cardinality(attesters(id))
          /\ \A f \in flags : f[1] \in DOMAIN transfers)
    /\ [][\A id \in DOMAIN transfers :
            transfers'[id].confirmations # transfers[id].confirmations =>
                /\ transfers'[id].confirmations = transfers[id].confirmations + 1
                /\ \E r \in Accounts :
                     /\ <<id, r>> \notin flags
                     /\ flags' = flags \cup {<<id, r>>}
                     /\ confirmTransfer(r, id) \/ confirmTransferEnum(r, id)]_vars

\* Two transfers, one attested by two relayers and one by a third only.
C5_Witness ==
    \E id1, id2 \in DOMAIN transfers :
        /\ id1 # id2
        /\ transfers[id1].confirmations = 2
        /\ transfers[id2].confirmations = 1
        /\ attesters(id1) \cap attesters(id2) = {}

\* C6: in the "bool" PolygonBridge a confirmTransfer(id) by a relayer whose
\* flag for the still-uncompleted transfer id is set is rejected with
\* AlreadyConfirmed and leaves confirmations, completed and hasConfirmed alone.
C6_SecondAttestationRejected ==
    [][\A r \in Accounts, id \in DOMAIN transfers :
        ( /\ variant = "bool"
          /\ r \in relayerRole
          /\ <<id, r>> \in hasConfirmed
          /\ ~transfers[id].completed
          /\ confirmTransfer(r, id) )
        => /\ result' = "AlreadyConfirmed"
           /\ UNCHANGED <<transfers, hasConfirmed>>]_vars

\* A relayer's second attestation of a transfer that is still open was rejected.
C6_Witness ==
    /\ variant = "bool"
    /\ result = "AlreadyConfirmed"
    /\ \E id \in DOMAIN transfers :
         ~transfers[id].completed /\ transfers[id].confirmations = 1

\* C7: in the "bool" PolygonBridge every confirmTransfer(id) of a completed
\* transfer by an account holding RELAYER_ROLE, whether it attested before
\* or not, is rejected with AlreadyCompleted, and a completed transfer's
\* confirmations never change; with relayerThreshold = 2 the first
\* attestation gives confirmations = 1, completed = FALSE and the second
\* gives confirmations = 2, completed = TRUE.
C7_RejectedAfterCompletion ==
    [][variant = "bool" =>
        \A id \in DOMAIN transfers :
          /\ \A r \in Accounts :
               (r \in relayerRole /\ transfers[id].completed /\ confirmTransfer(r, id))
               => /\ result' = "AlreadyCompleted"
                  /\ UNCHANGED <<transfers, hasConfirmed>>
          /\ transfers[id].completed =>
               transfers'[id].confirmations = transfers[id].confirmations
          /\ (attested(id) /\ config.relayerThreshold = 2) =>
               /\ transfers[id].confirmations = 0 =>
                    transfers'[id].confirmations = 1 /\ ~transfers'[id].completed
               /\ transfers[id].confirmations = 1 =>
                    transfers'[id].confirmations = 2 /\ transfers'[id].completed]_vars

\* With threshold 2 a transfer was completed by two attestations and a
\* relayer that never attested it was then rejected.
C7_Witness ==
    /\ variant = "bool"
    /\ result = "AlreadyCompleted"
    /\ config.relayerThreshold = 2
    /\ \E id \in DOMAIN transfers :
         /\ transfers[id].completed /\ transfers[id].confirmations = 2
         /\ relayerRole \ attesters(id) # {}

\* C8: in the "bool" PolygonBridge, in the step that completes a transfer
\* at least config.relayerThreshold (as stored at that step) distinct
\* accounts have attested it, and an attestation flag is only ever set for
\* an account that holds RELAYER_ROLE at that step.
C8_QuorumOfRelayers ==
    [][variant = "bool" =>
        /\ \A id \in DOMAIN transfers' :
             completes(id) =>
                Cardinality({r \in Accounts : <<id, r>> \in hasConfirmed'})
                    >= config.relayerThreshold
        /\ \A f \in hasConfirmed' \ hasConfirmed : f[2] \in relayerRole]_vars

\* A transfer completed under threshold 2, one of whose attesters has had
\* the role revoked since.
C8_Witness ==
    /\ variant = "bool"
    /\ config.relayerThreshold = 2
    /\ \E id \in DOMAIN transfers :
         /\ transfers[id].completed
         /\ Cardinality(attesters(id)) = 2
         /\ attesters(id) \ relayerRole # {}

\* The native values a request of SpecRequest may carry.
Values == Amounts \cup {0, 50}

\* The errors a bridgeToTON is rejected with, in either variant.
RequestErrors ==
    {"EnforcedPause", "BridgeDisabled", "UnsupportedToken", "InvalidRecipient",
     "InsufficientAmount", "ExceedsMaxAmount", "Panic", "Incorrect ETH amount",
     "Incorrect POL amount", "SafeERC20FailedOperation"}

\* The step is an accepted bridgeToTON; accepted is the entry it logged.
accepts == Len(logs') = Len(logs) + 1
accepted == logs'[Len(logs')]

\* C11: on the "bool" PolygonBridge, in every reachable state, a bridgeToTON
\* that passes the pause, enabled and supported-token checks is rejected with
\* InsufficientAmount when amount < minBridgeAmount, with ExceedsMaxAmount
\* when amount is not below the minimum and amount > maxBridgeAmount, and on
\* neither ground when the amount is within the bounds, the bounds included;
\* every accepted request has min <= amount <= max and a request rejected on
\* amount grounds creates no Transfer.
C11_AmountBoundsInclusive ==
    /\ [](variant = "bool" =>
            \A r \in Recipients, t \in Tokens, a \in Amounts, v \in Values, ok \in BOOLEAN :
              (~paused /\ config.enabled /\ supportedTokens[t]) =>
                LET err == bridgeToTONError(r, t, a, v, ok) IN
                /\ a < config.minBridgeAmount => err = "InsufficientAmount"
                /\ (a >= config.minBridgeAmount /\ a > config.maxBridgeAmount)
                     => err = "ExceedsMaxAmount"
                /\ a = config.minBridgeAmount => err # "InsufficientAmount"
                /\ a = config.maxBridgeAmount => err # "ExceedsMaxAmount"
                /\ (a >= config.minBridgeAmount /\ a <= config.maxBridgeAmount)
                     => err \notin {"InsufficientAmount", "ExceedsMaxAmount"})
    /\ [][variant = "bool" =>
            /\ accepts =>
                 /\ custodied(accepted) >= config.minBridgeAmount
                 /\ custodied(accepted) <= config.maxBridgeAmount
            /\ result' \in {"InsufficientAmount", "ExceedsMaxAmount"}
                 => UNCHANGED <<transfers, transferNonce, logs>>]_vars

\* Requests of exactly the minimum (100) and exactly the maximum (10000)
\* were accepted and a larger one was then rejected.
C11_Witness ==
    /\ variant = "bool"
    /\ result = "ExceedsMaxAmount"
    /\ config.minBridgeAmount = 100 /\ config.maxBridgeAmount = 10000
    /\ \E i, j \in 1..Len(logs) :
        /\ logs[i].amount + logs[i].fee = 100
        /\ logs[j].amount + logs[j].fee = 10000

\* C12: on the "bool" PolygonBridge a bridgeToTON (bridge not paused and
\* enabled) for a token whose supportedTokens entry is false is rejected
\* with UnsupportedToken and creates no Transfer; every accepted request is
\* for a token whose entry is true; and an entry changes only by
\* setSupportedToken of the admin, to the value that call gives.
C12_OnlySupportedTokens ==
    /\ [](variant = "bool" =>
            \A r \in Recipients, t \in Tokens, a \in Amounts, v \in Values, ok \in BOOLEAN :
              (~paused /\ config.enabled /\ ~supportedTokens[t])
                 => bridgeToTONError(r, t, a, v, ok) = "UnsupportedToken")
    /\ [][variant = "bool" =>
            /\ result' = "UnsupportedToken"
                 => UNCHANGED <<transfers, transferNonce, logs, nativeCustody, tokenCustody>>
            /\ accepts => supportedTokens[accepted.token]
            /\ \A t \in Tokens :
                 supportedTokens'[t] # supportedTokens[t]
                    => setSupportedToken(Admin, t, supportedTokens'[t])
            /\ \A t \in Tokens, b \in BOOLEAN :
                 setSupportedToken(User, t, b) => UNCHANGED supportedTokens]_vars

\* A token request was accepted while the token was supported, the token was
\* then removed and the next request for it was rejected.
C12_Witness ==
    /\ variant = "bool"
    /\ result = "UnsupportedToken"
    /\ ~supportedTokens[TOK]
    /\ \E i \in 1..Len(logs) : logs[i].token = TOK

\* C13: on the "bool" PolygonBridge no Transfer with an empty tonRecipient
\* is ever recorded.
C13_NoEmptyRecipient ==
    variant = "bool" =>
        \A id \in DOMAIN transfers : transfers[id].tonRecipient # EmptyRecipient

\* C14: on the "bool" PolygonBridge (not paused), while config.enabled is
\* false every bridgeToTON is rejected with BridgeDisabled whatever its
\* arguments, no step creates a Transfer, and enabled becomes true again only
\* by an updateConfig of the admin.
C14_DisabledRejectsAll ==
    /\ [](variant = "bool" =>
            \A r \in Recipients, t \in Tokens, a \in Amounts, v \in Values, ok \in BOOLEAN :
              (~paused /\ ~config.enabled)
                 => bridgeToTONError(r, t, a, v, ok) = "BridgeDisabled")
    /\ [][variant = "bool" =>
            /\ ~config.enabled => UNCHANGED <<transfers, transferNonce, logs>>
            /\ (~config.enabled /\ config'.enabled) => updateConfig(Admin, config')]_vars

\* The bridge took a transfer, was disabled and then rejected a request.
C14_Witness ==
    /\ variant = "bool"
    /\ result = "BridgeDisabled"
    /\ ~config.enabled
    /\ transferNonce > 0

\* C15: in both variants a bridgeToTON whose attached value differs from the
\* amount (native) or whose transferFrom pull fails (token) is rejected, and
\* every rejected bridgeToTON leaves transferNonce, transfers, the attestation
\* flags, the custody balances and collectedFees as they were.
C15_RejectedRequestChangesNothing ==
    /\ [](\A r \in Recipients, t \in Tokens, a \in Amounts, v \in Values, ok \in BOOLEAN :
            ((t = ZERO /\ v # a) \/ (t # ZERO /\ ~ok)) =>
                IF variant = "bool" THEN bridgeToTONError(r, t, a, v, ok) # "ok"
                ELSE bridgeToTONEnumError(r, t, a, v, ok) # "ok")
    /\ [][result' \in RequestErrors =>
            UNCHANGED <<transferNonce, transfers, hasConfirmed, relayerConfirmations,
                        nativeCustody, tokenCustody, collectedFees, logs>>]_vars

\* With tokens already in custody, a token request whose pull failed was rejected.
C15_Witness ==
    /\ result = "SafeERC20FailedOperation"
    /\ tokenCustody[TOK] > 0
    /\ transferNonce > 0

\* C16: in every reachable state transferNonce equals the number of Transfer
\* records created; a step changes it only by creating a record (an accepted
\* bridgeToTON), and then by exactly 1: attestations, configuration and
\* token-list updates, pause, unpause and rejected requests leave it alone.
C16_NonceCountsTransfers ==
    /\ [](/\ transferNonce = Cardinality(DOMAIN transfers)
          /\ transferNonce = Len(logs))
    /\ [][/\ accepts => transferNonce' = transferNonce + 1
          /\ ~accepts => transferNonce' = transferNonce
          /\ transferNonce' # transferNonce =>
               /\ result' = "ok"
               /\ Cardinality(DOMAIN transfers') = Cardinality(DOMAIN transfers) + 1]_vars

\* Two requests were accepted, one was attested, the bridge is paused and
\* the last request was rejected.
C16_Witness ==
    /\ transferNonce = 2
    /\ paused
    /\ result = "EnforcedPause"
    /\ \E id \in DOMAIN transfers : transfers[id].confirmations = 1

\* C17: while the "bool" PolygonBridge is paused, no step adds a
\* confirmation, completes a transfer, creates a Transfer or moves funds:
\* bridgeToTON and confirmTransfer change no state.
C17_PausedBlocksRequestAndAttest ==
    [][(variant = "bool" /\ paused) =>
        UNCHANGED <<transfers, hasConfirmed, transferNonce, nativeCustody,
                    tokenCustody, logs>>]_vars

\* C18: in both variants a confirmTransfer by an account that does not hold
\* RELAYER_ROLE is rejected as unauthorized, one by a relayer on an id that
\* no bridgeToTON produced is rejected with TransferNotFound, in both cases
\* with the records, the flags and the counts unchanged; no confirmTransfer
\* creates a record, and a flag is only ever set for a role holder on an
\* existing transfer.
C18_OnlyRelayersOnExistingTransfers ==
    /\ [](\A c \in Accounts, id \in KnownIds :
            LET err == IF variant = "bool" THEN confirmTransferError(c, id)
                       ELSE confirmTransferEnumError(c, id)
            IN /\ c \notin relayerRole => err = "AccessControlUnauthorizedAccount"
               /\ (c \in relayerRole /\ id \notin DOMAIN transfers /\ ~paused)
                    => err = "TransferNotFound")
    /\ [][/\ result' \in {"AccessControlUnauthorizedAccount", "TransferNotFound"}
               => UNCHANGED <<transfers, hasConfirmed, relayerConfirmations>>
          /\ DOMAIN transfers' # DOMAIN transfers => accepts
          /\ \A f \in flags' \ flags :
               f[2] \in relayerRole /\ f[1] \in DOMAIN transfers]_vars

\* With a transfer attested by a relayer, a relayer's confirmTransfer of an
\* id that was never produced was rejected.
C18_Witness ==
    /\ result = "TransferNotFound"
    /\ relayerRole # {}
    /\ flags # {}
    /\ BogusId \notin DOMAIN transfers

\* C19: on the "bool" PolygonBridge an updateConfig of the admin with
\* minBridgeAmount >= maxBridgeAmount, or with feeBasisPoints above the
\* ceiling of 1000, is rejected and leaves the stored config unchanged.
C19_InvalidConfigRejected ==
    [][variant = "bool" =>
        \A cfg \in RequestConfigs :
            ( /\ updateConfig(Admin, cfg)
              /\ \/ cfg.minBridgeAmount >= cfg.maxBridgeAmount
                 \/ cfg.feeBasisPoints > 1000 )
            => /\ result' # "ok"
               /\ config' = config]_vars

\* C20: in every reachable state of either variant, after initialize with
\* any config and any sequence of updateConfig calls, the stored
\* config.relayerThreshold is at least 1.
C20_ThresholdAtLeastOne == config.relayerThreshold >= 1

\* C21: on the "bool" PolygonBridge every accepted confirmTransfer leaves
\* the transfer completed iff its incremented confirmations count is >= the
\* config.relayerThreshold stored at that step, whatever the threshold was
\* when the transfer was requested or attested before; updateConfig alone
\* completes nothing.
C21_ThresholdReadAtAttestation ==
    [][variant = "bool" =>
        /\ \A id \in DOMAIN transfers :
             attested(id) =>
                (transfers'[id].completed <=>
                    transfers[id].confirmations + 1 >= config.relayerThreshold)
        /\ config' # config => UNCHANGED transfers]_vars

\* The threshold was lowered from 2 to 1 while transfers with one
\* attestation were open: the next attestation of one of them completed it
\* at 2 confirmations, the other is still open with its count at the threshold.
C21_Witness ==
    /\ variant = "bool"
    /\ config.relayerThreshold = 1
    /\ \E id1, id2 \in DOMAIN transfers :
         /\ transfers[id1].completed /\ transfers[id1].confirmations = 2
         /\ ~transfers[id2].completed /\ transfers[id2].confirmations = 1

\* The payments sent so far for transfer id.
paymentsFor(id) ==
    LET RECURSIVE sum(_)
        sum(ps) == IF ps = {} THEN 0
                   ELSE LET x == CHOOSE y \in ps : TRUE
                        IN (IF x.transferId = id THEN CopiesIn(x, tonPayments) ELSE 0)
                           + sum(ps \ {x})
    IN sum(BagToSet(tonPayments))

\* C22: in a poll() call of the relayer, a failed pass of sendNativeTon
\* before the third is followed by another pass; a pass that sends, the
\* third included, adds one payment and leads to the submission of
\* confirmTransfer for that transfer; confirmTransfer is submitted from
\* nowhere else, and once submitted the call goes on to the read-back or
\* ends: one submission per payment.
C22_ThirdAttemptSendsAndConfirmsOnce ==
    [][\A p \in RelayerThreads :
        (p \in DOMAIN cycle /\ cycle'[p] # cycle[p]) =>
          LET c == cycle[p]
              d == cycle'[p]
          IN /\ c.pc = "sendNativeTon" =>
                  IF tonPayments' = tonPayments
                  THEN IF c.attempt < 3
                       THEN d.pc = "sendNativeTon" /\ d.attempt = c.attempt + 1
                       ELSE d.pc # "confirmTransfer"
                  ELSE /\ d.pc = "confirmTransfer"
                       /\ d.queue = c.queue /\ d.attempt = c.attempt
                       /\ paymentsFor(Head(c.queue).transferId)' =
                             paymentsFor(Head(c.queue).transferId) + 1
             /\ d.pc = "confirmTransfer" =>
                  c.pc = "sendNativeTon" /\ tonPayments' # tonPayments
             /\ c.pc = "confirmTransfer" => d.pc \in {"after", "idle"}
             /\ hasConfirmed' # hasConfirmed =>
                  /\ c.pc = "confirmTransfer" /\ d.pc = "after"
                  /\ hasConfirmed' =
                        hasConfirmed \cup {<<Head(c.queue).transferId, owner(p)>>}]_vars

\* A call whose send failed twice and went through on the third pass has
\* submitted its one confirmTransfer, which is recorded; the relayer has
\* paid that transfer once.
C22_Witness ==
    \E p \in RelayerThreads :
        /\ p \in DOMAIN cycle
        /\ cycle[p].pc = "after"
        /\ cycle[p].attempt = 3
        /\ <<Head(cycle[p].queue).transferId, owner(p)>> \in hasConfirmed
        /\ paymentsFor(Head(cycle[p].queue).transferId) = 1

\* The BridgeInitiated entries a poll() call has taken on and not yet gone
\* through: the range it asked getLogs for, or what is left of its queue.
takenOn(c) ==
    IF c.pc = "getLogs" THEN {logs[i] : i \in {k \in 1..Len(logs) :
                                  logs[k].blockNumber >= c.from /\ logs[k].blockNumber <= c.to}}
    ELSE IF c.pc \in {"getTransfer", "sendNativeTon", "confirmTransfer", "after"}
    THEN {c.queue[i] : i \in 1..Len(c.queue)}
    ELSE {}

\* After the step, a later poll() call of the process will scan the entry's block.
stillAhead(e, proc) == e.blockNumber > lastBlock'[proc]

\* C23: when a poll() call of a relayer ends, every event it had taken on
\* (the range it asked getLogs for, or the events left in its queue) is
\* resolved - its transfer completed or attested by this relayer - or is
\* still ahead of the cursor lastBlock, so that a later call scans it again.
C23_CursorNeverPassesUnresolved ==
    [][\A p \in RelayerThreads :
        (p \in DOMAIN cycle /\ cycle[p].pc # "idle" /\ cycle'[p].pc = "idle") =>
            \A e \in takenOn(cycle[p]) :
                \/ after(e.transferId).completed
                \/ <<e.transferId, owner(p)>> \in hasConfirmed'
                \/ stillAhead(e, owner(p))]_vars

\* C24: when sendNativeTon gives up on a transfer (its last attempt fails),
\* the BridgeInitiated event of that transfer stays ahead of the cursor of
\* the process, so that a later poll() call of the process scans it again.
C24_ExhaustedSendIsRetriedLater ==
    [][\A p \in DOMAIN cycle :
          (/\ cycle[p].pc = "sendNativeTon"
           /\ cycle[p].attempt = maxRetries
           /\ sendNativeTon(p, FALSE))
          => stillAhead(Head(cycle[p].queue), owner(p))]_vars

\* C25: when the confirmTransfer submission that follows a payment fails
\* (RPC error or revert) and the relayer's attestation is not recorded, the
\* event is still ahead of the relayer's cursor, so that a later poll() call
\* submits confirmTransfer for it again.
C25_FailedConfirmIsResubmitted ==
    [][\A p \in RelayerThreads :
        ( /\ p \in DOMAIN cycle
          /\ cycle[p].pc = "confirmTransfer"
          /\ cycle'[p].pc = "idle"
          /\ <<Head(cycle[p].queue).transferId, owner(p)>> \notin hasConfirmed' )
        => stillAhead(Head(cycle[p].queue), owner(p))]_vars

\* The poll() calls of a process that have been made and have not returned.
inProgress(proc) == {p \in threadsOf(proc) : cycle[p].pc \notin {"idle", "down"}}

\* C26: when a relayer process that has exited is started again, its cursor
\* lastBlock is the one it held when it exited: scanning resumes at the
\* block after it, no block mined in between is skipped and none is replayed.
C26_CursorSurvivesRestart ==
    [][\A proc \in DOMAIN lastBlock :
          ((\A p \in threadsOf(proc) : cycle[p] = Down) /\ startRelayer(proc))
          => lastBlock'[proc] = lastBlock[proc]]_vars

\* C27: within one relayer process at most one poll() call is in progress
\* (made and not yet returned) at any time.
C27_OnePollInProgress ==
    \A proc \in DOMAIN lastBlock : Cardinality(inProgress(proc)) <= 1

RECURSIVE feesIn(_)
\* The sum of the fee fields of a sequence of BridgeInitiated entries.
feesIn(entries) ==
    IF Len(entries) = 0 THEN 0 ELSE Head(entries).fee + feesIn(Tail(entries))

\* C28 ("enum"): collectedFees is the sum of the fees of all transfers
\* created, less what withdrawFees has paid to the collector, and every
\* withdrawal pays the whole total: so it is the sum of the fees charged
\* since the last withdrawal.  An accepted request adds exactly its fee;
\* nothing else changes the total but a successful withdrawFees, which pays
\* it to the collector from the bridge's native balance and leaves 0; a
\* withdrawFees by a non-admin, or one whose payout fails, changes nothing.
C28_FeesAccount ==
    /\ [](variant = "enum" => collectedFees + feesPaid = feesIn(logs))
    /\ [][variant = "enum" =>
            /\ accepts => /\ collectedFees' = collectedFees + accepted.fee
                          /\ transfers'[accepted.transferId].fee = accepted.fee
                          /\ feesPaid' = feesPaid
            /\ (~accepts /\ collectedFees' # collectedFees) =>
                   /\ withdrawFees(Admin, TRUE)
                   /\ collectedFees' = 0
                   /\ feesPaid' = feesPaid + collectedFees
                   /\ nativeCustody' = nativeCustody - collectedFees
            /\ result' # "ok" => (collectedFees' = collectedFees /\ feesPaid' = feesPaid)
            /\ \A ok \in BOOLEAN :
                   withdrawFees(User, ok) => collectedFees' = collectedFees
            /\ withdrawFees(Admin, FALSE) => collectedFees' = collectedFees]_vars

\* Fees of two requests were withdrawn, a further fee was charged since, and
\* a withdrawal has just failed.
C28_Witness ==
    /\ variant = "enum"
    /\ feesPaid > 0
    /\ collectedFees > 0
    /\ Len(logs) = 2
    /\ collectedFees = logs[2].fee
    /\ result = "Fee transfer failed"

\* The place of a status on the path Pending -> Confirmed -> Completed.
rank(status) ==
    CASE status = "Pending" -> 0
      [] status = "Confirmed" -> 1
      [] status = "Completed" -> 2
      [] OTHER -> 3

\* C29 ("enum"): every transfer is Pending, Confirmed or Completed, never
\* Cancelled, and no step moves a status backward.  confirmTransfer passes
\* its checks only on Pending transfers, and a count changes only on a
\* Pending transfer, which becomes Confirmed exactly when the new count is
\* at least relayerThreshold.  A status changes only from Pending to
\* Confirmed, in such a confirmTransfer, or from Confirmed to Completed, in
\* a completeTransfer; and completeTransfer's writes (status Completed,
\* tonTxHash) happen only on Confirmed transfers.
C29_StatusOnlyForward ==
    /\ [](variant = "enum" =>
            /\ \A id \in DOMAIN transfers :
                 transfers[id].status \in {"Pending", "Confirmed", "Completed"}
            /\ \A c \in Relayers \cup {User}, id \in KnownIds :
                 confirmTransferEnumError(c, id) = "ok" =>
                    id \in DOMAIN transfers /\ transfers[id].status = "Pending")
    /\ [][variant = "enum" =>
            \A id \in DOMAIN transfers :
                 LET old == transfers[id]
                     new == after(id)
                 IN /\ rank(old.status) <= rank(new.status)
                    /\ new.status # old.status =>
                         \/ /\ old.status = "Pending" /\ new.status = "Confirmed"
                            /\ new.confirmations = old.confirmations + 1
                            /\ new.confirmations >= config.relayerThreshold
                            /\ \E c \in Relayers : confirmTransferEnum(c, id)
                         \/ /\ old.status = "Confirmed" /\ new.status = "Completed"
                            /\ \E h \in TonTxHashes : completeTransfer(Admin, id, h)
                    /\ new.confirmations # old.confirmations =>
                         /\ old.status = "Pending"
                         /\ new.status = IF new.confirmations >= config.relayerThreshold
                                         THEN "Confirmed" ELSE "Pending"
                    /\ new.tonTxHash # old.tonTxHash =>
                         old.status = "Confirmed" /\ new.status = "Completed"]_vars

\* A transfer has gone the whole path, with two attestations, and a further
\* confirmTransfer on it has just been refused.
C29_Witness ==
    /\ variant = "enum"
    /\ result = "TransferAlreadyProcessed"
    /\ \E id \in DOMAIN transfers :
         transfers[id].status = "Completed" /\ transfers[id].confirmations = 2

\* The fields of a Transfer record that a funding request writes for good.
created(t) ==
    [sender |-> t.sender, token |-> t.token, amount |-> t.amount,
     tonRecipient |-> t.tonRecipient, timestamp |-> t.timestamp]

\* A record with its attestation count and completion state blanked: the
\* count and completed in "bool"; the count, status and the tonTxHash that
\* completeTransfer stores with the Completed status in "enum".
settled(t) ==
    IF variant = "bool" THEN [t EXCEPT !.confirmations = 0, !.completed = FALSE]
    ELSE [t EXCEPT !.confirmations = 0, !.status = "Pending", !.tonTxHash = "0x0"]

\* C30 (both variants): a Transfer record, once created, stays in the
\* mapping; its sender, token, amount, tonRecipient and timestamp never
\* change; nothing of it but the attestation count and the completion state
\* changes; and it changes only in a confirmTransfer on it or, in "enum",
\* a completeTransfer on it.
C30_RecordsAppendOnly ==
    [][\A id \in DOMAIN transfers :
          /\ id \in DOMAIN transfers'
          /\ created(transfers'[id]) = created(transfers[id])
          /\ settled(transfers'[id]) = settled(transfers[id])
          /\ transfers'[id] # transfers[id] =>
               \/ \E c \in Relayers : confirmTransfer(c, id)
               \/ \E c \in Relayers : confirmTransferEnum(c, id)
               \/ \E h \in TonTxHashes : completeTransfer(Admin, id, h)]_vars

\* Two records exist; the first has been attested and completed, and the
\* second was created after that.
C30_Witness ==
    /\ Cardinality(DOMAIN transfers) = 2
    /\ Len(logs) = 2
    /\ transfers[logs[1].transferId].confirmations >= 1
    /\ IF variant = "bool" THEN transfers[logs[1].transferId].completed
       ELSE transfers[logs[1].transferId].status = "Completed"
    /\ transfers[logs[2].transferId].confirmations = 0

\* The ids that successful bridgeToTON calls produced.
producedIds == {logs[i].transferId : i \in 1..Len(logs)}

\* The slot of an id as the deployed variant's getTransfer returns it.
readTransfer(id) == IF variant = "bool" THEN getTransfer(id) ELSE getTransferEnum(id)

\* The verdict of the deployed variant's confirmTransfer.
confirmVerdict(caller, id) ==
    IF variant = "bool" THEN confirmTransferError(caller, id)
    ELSE confirmTransferEnumError(caller, id)

\* C31 (both variants): getTransfer of an id that no successful bridgeToTON
\* produced returns the all-default record, with timestamp 0 and the zero
\* sender; every record a bridgeToTON created has a nonzero timestamp and a
\* nonzero sender; and confirmTransfer answers TransferNotFound for no
\* created transfer.
C31_CreatedIsDistinguishable ==
    /\ \A id \in KnownIds \ producedIds :
         /\ readTransfer(id) = (IF variant = "bool" THEN NoTransfer ELSE NoTransferEnum)
         /\ readTransfer(id).timestamp = 0 /\ readTransfer(id).sender = ZERO
    /\ \A id \in producedIds :
         /\ readTransfer(id).timestamp # 0
         /\ readTransfer(id).sender # ZERO
         /\ \A c \in Accounts : confirmVerdict(c, id) # "TransferNotFound"

\* A created transfer has been attested, and a confirmTransfer on an id never
\* produced has just been answered TransferNotFound.
C31_Witness ==
    /\ result = "TransferNotFound"
    /\ \E id \in producedIds : readTransfer(id).confirmations >= 1
    /\ BogusId \notin producedIds

\* C32: when a relayer process halts on a shutdown signal, no poll() call
\* of it is in flight: a call made before the signal has run to its end.
C32_ShutdownLetsCycleFinish ==
    [][\A proc \in DOMAIN lastBlock :
          stopRelayer(proc) => inProgress(proc) = {}]_vars

\* C33: WrappedTON.initialize(admin, bridge) with a nonzero admin, on a
\* proxy not yet initialized, succeeds also when bridge is the zero address;
\* and an updateBridge(realBridge) by the admin leaves realBridge the bridge
\* and the only minter.
C33_PlaceholderBridgeAccepted ==
    [][/\ \A a \in {Admin} :
            (~wton.initialized /\ initialize(a, ZERO)) =>
                wton'.initialized /\ wton'.result = "ok"
       /\ \A b \in Bridges :
            (Admin \in wton.admins /\ updateBridge(Admin, b)) =>
                wton'.bridge = b /\ wton'.minters = {b}]_vars

\* The step is a successful setSupportedToken(token, supported) by the
\* authorized operator of the deployed variant.
setsToken(token, supported) ==
    /\ result' = "ok"
    /\ \/ setSupportedToken(Admin, token, supported)
       \/ setSupportedTokenEnum(Admin, token, supported)

\* C34 (both variants): right after initialize the native sentinel
\* address(0) is supported; it stops being supported only in a successful
\* setSupportedToken(address(0), false) by the authorized operator; and an
\* entry of supportedTokens changes only in a successful setSupportedToken
\* for that token by the authorized operator; a setSupportedToken by
\* another caller changes none.
C34_NativeSupportedByDefault ==
    /\ supportedTokens[ZERO]
    /\ [][/\ (supportedTokens[ZERO] /\ ~supportedTokens'[ZERO]) => setsToken(ZERO, FALSE)
          /\ \A t \in Tokens :
               supportedTokens'[t] # supportedTokens[t] => setsToken(t, supportedTokens'[t])
          /\ \A t \in Tokens, b \in BOOLEAN :
               (setSupportedToken(User, t, b) \/ setSupportedTokenEnum(User, t, b))
                  => supportedTokens' = supportedTokens]_vars

\* The native sentinel has been removed by the admin after a native request
\* was accepted, and a request has just been refused for it.
C34_Witness ==
    /\ ~supportedTokens[ZERO]
    /\ Len(logs) >= 1
    /\ result = "UnsupportedToken"

\* The event a poll() call is handling.
current(c) == Head(c.queue)

\* C35: a poll() call enters sendNativeTon for an event only from the read
\* of the event's Transfer record, and carries the record it read; when
\* the record reads completed the call goes on to the next event (or ends)
\* without a payment and without a confirmTransfer; and sendNativeTon and
\* confirmTransfer are only ever pending for a transfer that read as not
\* completed.
C35_CompletedIsSkipped ==
    /\ [](\A p \in DOMAIN cycle :
            cycle[p].pc = "sendNativeTon" => ~cycle[p].t.completed)
    /\ [][\A p \in DOMAIN cycle :
            LET c == cycle[p]
                d == cycle'[p]
            IN /\ (d.pc = "sendNativeTon" /\ c.pc # "sendNativeTon") =>
                     /\ c.pc = "getTransfer"
                     /\ d.t = getTransfer(current(c).transferId)
                     /\ current(d) = current(c)
               /\ (d.pc = "confirmTransfer" /\ c.pc # "confirmTransfer") =>
                     c.pc = "sendNativeTon" /\ current(d) = current(c)
               /\ (c.pc = "getTransfer" /\ d # c
                     /\ getTransfer(current(c).transferId).completed) =>
                     /\ d \in {nextLog(c), Idle}
                     /\ tonPayments' = tonPayments
                     /\ transfers' = transfers
                     /\ hasConfirmed' = hasConfirmed]_vars

\* A poll() call whose range held two events has left the first, completed
\* by the other relayer, without paying or attesting, and reads the second.
C35_Witness ==
    \E p \in DOMAIN cycle :
        /\ cycle[p].pc = "getTransfer"
        /\ Len(logs) = 2
        /\ cycle[p].queue = <<logs[2]>>
        /\ logs[1].blockNumber = logs[2].blockNumber
        /\ transfers[logs[1].transferId].completed
        /\ <<logs[1].transferId, owner(p)>> \notin hasConfirmed
        /\ paymentsFor(logs[1].transferId) = 1

\* C36: a poll() call comes to submit confirmTransfer(id) only from a
\* sendNativeTon for the same event that has just sent a payment for id;
\* while the submission is pending a payment for id exists; a step that
\* records an attestation is the confirmTransfer of a call in that position,
\* for its event and its relayer; and when sendNativeTon gives up, the call
\* goes on to the next event (or ends) with no attestation, and the events
\* left in its queue are other transfers.
C36_ConfirmOnlyAfterPayment ==
    /\ [](\A p \in DOMAIN cycle :
            /\ cycle[p].pc = "confirmTransfer" =>
                  paymentsFor(current(cycle[p]).transferId) >= 1
            /\ cycle[p].pc \in {"getTransfer", "sendNativeTon", "confirmTransfer", "after"} =>
                  \A i, j \in 1..Len(cycle[p].queue) :
                     i # j => cycle[p].queue[i].transferId # cycle[p].queue[j].transferId)
    /\ [][/\ \A p \in DOMAIN cycle :
               LET c == cycle[p]
                   d == cycle'[p]
               IN /\ (d.pc = "confirmTransfer" /\ c.pc # "confirmTransfer") =>
                        /\ c.pc = "sendNativeTon"
                        /\ current(d) = current(c)
                        /\ paymentsFor(current(c).transferId)'
                              = paymentsFor(current(c).transferId) + 1
                  /\ (c.pc = "sendNativeTon" /\ d # c /\ tonPayments' = tonPayments) =>
                        /\ hasConfirmed' = hasConfirmed
                        /\ d = IF c.attempt = maxRetries THEN nextLog(c)
                               ELSE [c EXCEPT !.attempt = @ + 1]
          /\ hasConfirmed' # hasConfirmed =>
               \E p \in DOMAIN cycle :
                  /\ cycle[p].pc = "confirmTransfer"
                  /\ cycle'[p].pc = "after"
                  /\ hasConfirmed' = hasConfirmed
                        \cup {<<current(cycle[p]).transferId, owner(p)>>}]_vars

\* A poll() call whose range held two events gave up the payment of the
\* first, which stays unpaid and unattested, and has paid the second, whose
\* confirmTransfer is pending.
C36_Witness ==
    \E p \in DOMAIN cycle :
        /\ cycle[p].pc = "confirmTransfer"
        /\ Len(logs) = 2
        /\ cycle[p].queue = <<logs[2]>>
        /\ logs[1].blockNumber = logs[2].blockNumber
        /\ paymentsFor(logs[1].transferId) = 0
        /\ attesters(logs[1].transferId) = {}
        /\ paymentsFor(logs[2].transferId) = 1

\* The poll() call is inside an invocation of sendNativeTon.
sending(p) == IF p \in DOMAIN cycle THEN cycle[p].pc = "sendNativeTon" ELSE FALSE

\* C37: the pass counter of an invocation of sendNativeTon stays within
\* 1..maxRetries (3); a pass that sends makes one payment and ends the
\* invocation at once (success); a failed pass before the third starts the
\* next pass and the third failed pass ends the invocation with no payment
\* (failure); and, its calls answering, every invocation ends.
C37_SendIsBounded ==
    /\ [](\A p \in DOMAIN cycle :
            cycle[p].pc = "sendNativeTon" => cycle[p].attempt \in 1..maxRetries)
    /\ [][\A p \in DOMAIN cycle :
            LET c == cycle[p]
                d == cycle'[p]
            IN (c.pc = "sendNativeTon" /\ d # c) =>
                 IF tonPayments' # tonPayments
                 THEN /\ paymentsFor(current(c).transferId)'
                            = paymentsFor(current(c).transferId) + 1
                      /\ d.pc = "confirmTransfer"
                      /\ d.attempt = c.attempt
                 ELSE IF c.attempt < maxRetries
                 THEN d = [c EXCEPT !.attempt = @ + 1]
                 ELSE d = nextLog(c)]_vars
    /\ \A p \in SendThreads : sending(p) ~> ~sending(p)

\* The first event of the chain was paid by an invocation that sent, and
\* the invocation for the second is on its third pass after two failures.
C37_Witness ==
    \E p \in DOMAIN cycle :
        /\ cycle[p].pc = "sendNativeTon" /\ cycle[p].attempt = maxRetries
        /\ Len(logs) = 2
        /\ current(cycle[p]) = logs[2]
        /\ paymentsFor(logs[1].transferId) = 1

\* The step throws out of the handling of the event at the head of the
\* queue of poll() call p: sendNativeTon throws on a recipient that does
\* not parse, or the confirmTransfer transaction reverts.
throwsHandling(p) ==
    \/ /\ cycle[p].pc = "getTransfer"
       /\ ~getTransfer(current(cycle[p]).transferId).completed
       /\ ~validTonAddress(getTransfer(current(cycle[p]).transferId).tonRecipient)
       /\ pollTransfer(p)
    \/ /\ cycle[p].pc = "confirmTransfer"
       /\ pollConfirm(p)
       /\ result' # "ok"

\* C38: when the handling of one event of a poll() call throws, each of the
\* events of the call's range that come after it is handled in the same
\* call (it stays in the queue) or can be handled in a later one (its block
\* is still ahead of the cursor), unless its transfer is completed.
C38_ExceptionLosesNoEvent ==
    [][\A p \in DOMAIN cycle :
          throwsHandling(p) =>
             \A i \in 2..Len(cycle[p].queue) :
                LET e == cycle[p].queue[i] IN
                \/ e \in takenOn(cycle'[p])
                \/ stillAhead(e, owner(p))
                \/ after(e.transferId).completed]_vars

RECURSIVE nativeFeesIn(_)
\* The sum of the fees charged on the native-asset transfers of a sequence
\* of BridgeInitiated entries.
nativeFeesIn(entries) ==
    IF Len(entries) = 0 THEN 0
    ELSE (IF Head(entries).token = ZERO THEN Head(entries).fee ELSE 0)
         + nativeFeesIn(Tail(entries))

\* C39 ("enum"): the native value withdrawFees has paid out is at most the
\* fees collected on native-asset transfers: no fee charged on an ERC-20
\* transfer is paid out of the native custody.
C39_WithdrawalWithinNativeFees ==
    variant = "enum" => feesPaid <= nativeFeesIn(logs)

\* The step starts a process: none of its poll() calls existed before.
starts(proc) == \A p \in threadsOf(proc) : cycle[p] = Down

\* C40: within one relayer process lastBlock never decreases, it changes
\* only when a poll() call takes a range, and the range taken is
\* [lastBlock + 1, lastBlock'], not empty: so the ranges of a process are
\* pairwise disjoint and each begins right after the one before.  The
\* ranges of calls suspended in getLogs at the same time are disjoint.
C40_RangesDisjointContiguous ==
    /\ [](\A proc \in DOMAIN lastBlock :
            \A p, q \in threadsOf(proc) :
               (p # q /\ cycle[p].pc = "getLogs" /\ cycle[q].pc = "getLogs") =>
                  (cycle[p].to < cycle[q].from \/ cycle[q].to < cycle[p].from))
    /\ [][\A proc \in DOMAIN lastBlock :
            ~starts(proc) =>
               /\ lastBlock'[proc] >= lastBlock[proc]
               /\ \A p \in threadsOf(proc) :
                    (cycle'[p].pc = "getLogs" /\ cycle[p].pc # "getLogs") =>
                       /\ cycle'[p].from = lastBlock[proc] + 1
                       /\ cycle'[p].to = lastBlock'[proc]
                       /\ cycle'[p].from <= cycle'[p].to
               /\ lastBlock'[proc] # lastBlock[proc] =>
                    \E p \in threadsOf(proc) :
                       cycle'[p].pc = "getLogs" /\ cycle[p].pc = "getBlockNumber"]_vars

\* Two poll() calls of one process are suspended in getLogs at the same
\* time, the range of one beginning right after the range of the other.
C40_Witness ==
    \E proc \in DOMAIN lastBlock :
        \E p, q \in threadsOf(proc) :
            /\ p # q
            /\ cycle[p].pc = "getLogs" /\ cycle[q].pc = "getLogs"
            /\ cycle[q].from = cycle[p].to + 1

====
